---------------------------- MODULE Spec2Model ----------------------------
(***************************************************************************)
(* State-machine model of the phishing-mail analysis page                  *)
(* (src/pages/mail_analysis.py), of the quiz page (src/pages/quiz_game.py) *)
(* and of the quiz endpoints of the API server (src/api_server.py).        *)
(*                                                                         *)
(* Text is modelled as a sequence of tokens (TLA+ strings): a token is a   *)
(* run of characters that the program's string operations never cut        *)
(* through.  Digits are one token each, so that the \d{1,3} groups of the  *)
(* IPv4 pattern are matched digit by digit; separators (" - ", ".", "/",   *)
(* "&", "Domain: ") are tokens of their own, so that split, startswith,    *)
(* endswith and the `in` substring test are computed on the text as the    *)
(* program computes them.  The Korean literals of the source are rendered  *)
(* in English; the original is quoted where the literal is defined.        *)
(***************************************************************************)
EXTENDS Integers, Sequences, FiniteSets, TLC

VARIABLES
    pc,               \* position of the script in main()
    msg,              \* the uploaded message (email.message_from_string)
    partIdx,          \* position of the msg.walk() loop
    results,          \* the results dict of main()
    vt_key_missing,   \* st.session_state.vt_key_missing
    warning,          \* whether the st.warning of line 532 is on the page
    cache,            \* st.cache_data store: lookup key -> cached return value
    service,          \* the reputation services' answer per lookup key
    hashOrder,        \* iteration order of the str sets of this process
    unique_hostnames, \* main(): set of hostnames to look up
    unique_hashes,    \* main(): set of file hashes to look up
    pending,          \* the rest of the running for loop over a set
    findings,         \* the findings list of the running reputation function
    scores,           \* the scores counter of the running reputation function
    executed,         \* lookups whose body ran in this run: key and answer
    looked,           \* lookup keys requested in this run
    base,             \* the analyzers' result, as it was before enrichment
    prev,             \* the previous completed run: message and result
    last,             \* the last analyzer call: its input and the result before
    session_state,    \* st.session_state of the quiz page: key -> value
    elapsed_time,     \* int(time.time() - question_start_time), as a run reads it
    response          \* the response of the API server to the last request

\* the state of a run of main()
runVars == <<pc, msg, partIdx, vt_key_missing, warning, cache, service, hashOrder,
             unique_hostnames, unique_hashes, pending, findings, scores,
             executed, looked, base, prev>>

\* the state of the quiz page and of the API server
quizVars == <<session_state, elapsed_time, response>>

vars == <<runVars, results, last, quizVars>>

-----------------------------------------------------------------------------
(* Bounds of the model *)

\* analyze_url calls in one behaviour of SpecUrl
MaxUrlCalls == 2

\* analyze_attachment calls in one behaviour of SpecAtt
MaxAttCalls == 1

\* leaf parts of an uploaded message
MaxParts == 2

-----------------------------------------------------------------------------
(* Text helpers *)

Min(a, b) == IF a < b THEN a ELSE b

Max(a, b) == IF a > b THEN a ELSE b

\* s.startswith(p)
StartsWith(s, p) == Len(s) >= Len(p) /\ SubSeq(s, 1, Len(p)) = p

\* s.endswith(p)
EndsWith(s, p) == Len(s) >= Len(p) /\ SubSeq(s, Len(s) - Len(p) + 1, Len(s)) = p

\* `tok in s` for a needle that is one token of the text
Contains(s, tok) == \E i \in 1..Len(s) : s[i] = tok

\* index of the first occurrence of the separator token, 0 when absent
FindTok(s, sep) ==
    IF Contains(s, sep) THEN CHOOSE i \in 1..Len(s) : s[i] = sep /\ \A j \in 1..(i-1) : s[j] # sep
    ELSE 0

\* s.split(sep)[0]
SplitFirst(s, sep) ==
    IF FindTok(s, sep) = 0 THEN s ELSE SubSeq(s, 1, FindTok(s, sep) - 1)

\* the text after the first separator: sep.join(s.split(sep)[1:])
AfterFirst(s, sep) == SubSeq(s, FindTok(s, sep) + 1, Len(s))

\* s.split(sep)[1]  (only evaluated when sep occurs in s)
SplitSecond(s, sep) == SplitFirst(AfterFirst(s, sep), sep)

\* len(s.split(sep))
SplitCount(s, sep) == Cardinality({i \in 1..Len(s) : s[i] = sep}) + 1

\* sep.join(parts), parts a sequence of texts
RECURSIVE Join(_, _)
Join(parts, sep) ==
    IF parts = <<>> THEN <<>>
    ELSE IF Len(parts) = 1 THEN parts[1]
    ELSE parts[1] \o <<sep>> \o Join(Tail(parts), sep)

\* sum of f over a sequence of numbers
RECURSIVE SumSeq(_)
SumSeq(s) == IF s = <<>> THEN 0 ELSE s[1] + SumSeq(Tail(s))

Digits == {"0", "1", "2", "3", "4", "5", "6", "7", "8", "9"}

\* length of the run of digit tokens at the head of s
RECURSIVE DigitRun(_)
DigitRun(s) == IF s # <<>> /\ s[1] \in Digits THEN 1 + DigitRun(Tail(s)) ELSE 0

\* re.match of (\d{1,3}\.){k-1}\d{1,3}$ at the head of s: k groups of one to
\* three digits separated by dots, then the end of the text
RECURSIVE MatchDottedQuad(_, _)
MatchDottedQuad(s, k) ==
    \E n \in 1..3 :
        /\ DigitRun(s) >= n
        /\ IF k = 1 THEN Len(s) = n
           ELSE /\ Len(s) > n
                /\ s[n + 1] = "."
                /\ MatchDottedQuad(SubSeq(s, n + 2, Len(s)), k - 1)

\* re.match(r'^\d{1,3}\.\d{1,3}\.\d{1,3}\.\d{1,3}$', hostname)
IsIPv4Literal(hostname) == MatchDottedQuad(hostname, 4)


-----------------------------------------------------------------------------
(* Results *)

\* results['summary'] = {} before calculate_summary has run
NoSummary == [totalScore |-> -1, level |-> "unset", message |-> "unset"]

\* main(): the results dict as created for a run
NewResults ==
    [header |-> <<>>, body |-> <<>>, attachments |-> <<>>, urls |-> <<>>,
     riskScores |-> [header |-> 0, body |-> 0, attachments |-> 0, urls |-> 0],
     summary |-> NoSummary]

\* an append that books every risk on the header score
AddFinding_headerScore(res, cat, finding, risk) ==
    [res EXCEPT ![cat] = Append(@, finding), !.riskScores.header = @ + risk]

\* results[cat].append(finding); results['riskScores'][cat] += risk
AddFinding(res, cat, finding, risk) ==
    [res EXCEPT ![cat] = Append(@, finding), !.riskScores[cat] = @ + risk]

Finding(item, value, status) == [item |-> item, value |-> value, status |-> status]

-----------------------------------------------------------------------------
(* analyze_url *)

\* str.lower() on one token
Lower(tok) ==
    CASE tok = "Example" -> "example"
      [] tok = "EXE" -> "exe"
      [] tok = "COM" -> "com"
      [] tok = "PASS" -> "pass"
      [] tok = "SPF" -> "spf"
      [] tok = "Urgent" -> "urgent"
      [] OTHER -> tok

LowerText(s) == [i \in 1..Len(s) |-> Lower(s[i])]

\* urlparse(unquote(url)): scheme://netloc/path?query.  The hrefs of the model
\* carry no percent escapes, userinfo, port or fragment, so unquote leaves the
\* text as it is and hostname is the lowercased netloc (None, here <<>>, when
\* the href has no netloc).
UrlParse(url) ==
    LET hasScheme == Contains(url, "://")
        scheme    == IF hasScheme THEN SplitFirst(url, "://") ELSE <<>>
        rest      == IF hasScheme THEN AfterFirst(url, "://") ELSE url
        noQuery   == SplitFirst(rest, "?")
        query     == IF Contains(rest, "?") THEN AfterFirst(rest, "?") ELSE <<>>
        netloc    == IF hasScheme THEN SplitFirst(noQuery, "/") ELSE <<>>
        path      == SubSeq(noQuery, Len(netloc) + 1, Len(noQuery))
    IN  [scheme |-> LowerText(scheme), hostname |-> LowerText(netloc),
         path |-> path, query |-> query]

\* tokens of the character class [a-zA-Z0-9._%+-]+ / [a-zA-Z0-9.-]+
WordTokens == {"user", "example", "com", "a", "b", "co", "id", "x", "mytoken",
               "redirect", "login", "token", "next", "continue", "return"} \cup Digits \cup {"."}

\* tokens that begin with two letters: where \.[a-zA-Z]{2,} can match
TwoLetterStart == {"user", "example", "com", "co", "id", "mytoken",
                   "redirect", "login", "token", "next", "continue", "return"}

\* re.search(r'[a-zA-Z0-9._%+-]+@[a-zA-Z0-9.-]+\.[a-zA-Z]{2,}', query)
HasEmailPattern(query) ==
    \E i \in 2..Len(query) :
        /\ query[i] = "@"
        /\ query[i - 1] \in WordTokens
        /\ \E j \in (i + 2)..(Len(query) - 1) :
              /\ \A k \in (i + 1)..(j - 1) : query[k] \in WordTokens
              /\ query[j] = "."
              /\ query[j + 1] \in TwoLetterStart

\* len([p for p in path.split('/') if p]): the non-empty segments
PathSegments(path) ==
    Cardinality({i \in 1..Len(path) : path[i] # "/" /\ (i = 1 \/ path[i - 1] = "/")})

suspicious_tlds == <<"guru", "club", "xyz", "top", "loan", "work", "click", "link", "biz", "info">>

suspicious_params == <<"redirect", "login", "token", "next", "continue", "return">>

\* tok.endswith(p) for a name token of the query
NameEndsWith(tok, p) == tok = p \/ (tok = "mytoken" /\ p = "token")

\* f'{p}=' in url_obj.query
HasParamAssign(query, p) ==
    \E i \in 1..(Len(query) - 1) : NameEndsWith(query[i], p) /\ query[i + 1] = "="

\* the issue literals of analyze_url
IssueIP == "IP address used directly"          \* 'IP 주소 직접 사용'
IssueNoHttps == "HTTPS not used"               \* 'HTTPS 미사용'
IssuePunycode == "Punycode domain"             \* 'Punycode 도메인'
IssueTld == "suspicious TLD"                   \* '의심스러운 TLD'
IssueEmail == "email address in URL"           \* 'URL에 이메일 주소 포함'
IssuePath == "complex URL path structure"      \* '복잡한 URL 경로 구조'
IssueParam == "suspicious parameter"           \* '의심스러운 파라미터'

\* the seven checks of analyze_url in program order: condition, weight, issue
UrlChecks(u) ==
    << [hit |-> IsIPv4Literal(u.hostname), add |-> 40, issue |-> IssueIP],
       [hit |-> u.scheme # <<"https">>, add |-> 10, issue |-> IssueNoHttps],
       [hit |-> StartsWith(u.hostname, <<"xn--">>), add |-> 30, issue |-> IssuePunycode],
       [hit |-> \E i \in 1..Len(suspicious_tlds) : EndsWith(u.hostname, <<".", suspicious_tlds[i]>>),
        add |-> 20, issue |-> IssueTld],
       [hit |-> HasEmailPattern(u.query), add |-> 25, issue |-> IssueEmail],
       [hit |-> PathSegments(u.path) > 3, add |-> 15, issue |-> IssuePath],
       [hit |-> \E i \in 1..Len(suspicious_params) : HasParamAssign(u.query, suspicious_params[i]),
        add |-> 10, issue |-> IssueParam] >>

\* risk and issues after the first n checks: risk += add; issues.append(issue)
RECURSIVE UrlRiskUpTo(_, _)
UrlRiskUpTo(u, n) ==
    IF n = 0 THEN [risk |-> 0, issues |-> <<>>]
    ELSE LET sofar == UrlRiskUpTo(u, n - 1)
             c     == UrlChecks(u)[n]
         IN  IF c.hit THEN [risk |-> sofar.risk + c.add, issues |-> Append(sofar.issues, <<c.issue>>)]
             ELSE sofar

\* a risk total that leaves the suspicious-parameter check out
UrlRisk_skipParam(u) == UrlRiskUpTo(u, 6)

UrlRisk(u) == UrlRiskUpTo(u, 7)

\* a status chain whose danger threshold is exclusive
UrlStatus_exclusive(risk) ==
    IF risk > 40 THEN "danger" ELSE IF risk >= 15 THEN "warn" ELSE "safe"

\* if risk >= 40: status = 'danger' / elif risk >= 15: status = 'warn'
UrlStatus(risk) ==
    IF risk >= 40 THEN "danger" ELSE IF risk >= 15 THEN "warn" ELSE "safe"

\* details = f'Domain: {hostname}' (+ the issues in a span when there are any)
UrlDetails(hostname, status, issues) ==
    <<"Domain: ">> \o hostname \o
    (IF issues # <<>>
     THEN <<" - ", "<span class=status-", status, ">(">> \o Join(issues, ", ") \o <<")</span>">>
     ELSE <<>>)

\* analyzed_domains: item['value'].split(' - ')[0] of the items with 'Domain:'
AnalyzedDomains(res) ==
    {SplitFirst(res.urls[i].value, " - ") : i \in {j \in 1..Len(res.urls) : Contains(res.urls[j].value, "Domain: ")}}

\* analyze_url(url, results): the results after the call
analyze_url(url, res) ==
    IF url = <<>> THEN res
    ELSE LET u == UrlParse(url)
             r == UrlRisk(u)
             status == UrlStatus(r.risk)
         IN  IF u.hostname = <<>> THEN res
             ELSE IF u.hostname \in AnalyzedDomains(res) THEN res
             ELSE AddFinding(res, "urls",
                             Finding(<<"URL domain">>, UrlDetails(u.hostname, status, r.issues), status),
                             r.risk)

-----------------------------------------------------------------------------
(* analyze_attachment *)

\* FILE_SIGNATURES in dict order: expected MIME type and magic bytes
FILE_SIGNATURES ==
    << [mime |-> <<"application/pdf">>, sig |-> <<"25", "50", "44", "46">>],
       [mime |-> <<"application/zip">>, sig |-> <<"50", "4b", "03", "04">>],
       [mime |-> <<"application/x-msdownload">>, sig |-> <<"4d", "5a">>],
       [mime |-> <<"application/x-ole-storage">>, sig |-> <<"d0", "cf", "11", "e0", "a1", "b1", "1a", "e1">>],
       [mime |-> <<"application/rtf">>, sig |-> <<"7b", "5c", "72", "74", "66">>],
       [mime |-> <<"application/vnd.rar">>, sig |-> <<"52", "61", "72", "21", "1a", "07">>],
       [mime |-> <<"application/x-7z-compressed">>, sig |-> <<"37", "7a", "bc", "af", "27", "1c">>],
       [mime |-> <<"image/jpeg">>, sig |-> <<"ff", "d8", "ff", "e0">>],
       [mime |-> <<"image/png">>, sig |-> <<"89", "50", "4e", "47">>],
       [mime |-> <<"image/gif">>, sig |-> <<"47", "49", "46", "38">>] >>

suspicious_ext == <<"exe", "vbs", "scr", "bat", "com", "pif", "js", "cmd", "jar">>

\* any(filename.lower().endswith(ext) for ext in suspicious_ext)
HasSuspiciousExt(filename) ==
    \E i \in 1..Len(suspicious_ext) : EndsWith(LowerText(filename), <<".", suspicious_ext[i]>>)

\* len(filename.split('.')) > 2
HasDoubleExt(filename) == SplitCount(filename, ".") > 2

\* a double-extension check that sets warn whatever the status was
DoubleExtStatus_overwrite(status) == "warn"

\* status = 'danger' if status == 'danger' else 'warn'
DoubleExtStatus(status) == IF status = "danger" THEN "danger" ELSE "warn"

\* a double-extension check that adds its 20 to the risk
DoubleExtRisk_sum(risk) == risk + 20

\* risk = max(risk, 20)
DoubleExtRisk(risk) == Max(risk, 20)

\* status, risk, details after the two extension checks
AttachmentExtension(filename) ==
    LET s0 == [status |-> "info", risk |-> 0, details |-> <<"File: ">> \o filename]
        s1 == IF HasSuspiciousExt(filename)
              THEN [status |-> "danger", risk |-> 30,
                    details |-> s0.details \o <<" (executable suspected)">>]
              ELSE s0
    IN  IF HasDoubleExt(filename)
        THEN [status |-> DoubleExtStatus(s1.status), risk |-> DoubleExtRisk(s1.risk),
              details |-> s1.details \o <<" (double extension suspected)">>]
        ELSE s1

\* payload[:8]
First8(payload) == SubSeq(payload, 1, Min(8, Len(payload)))

\* a loop over FILE_SIGNATURES without the exception for OOXML documents
RECURSIVE MismatchFrom_noException(_, _, _)
MismatchFrom_noException(i, signature, declared) ==
    IF i > Len(FILE_SIGNATURES) THEN FALSE
    ELSE IF StartsWith(signature, FILE_SIGNATURES[i].sig)
         THEN declared # FILE_SIGNATURES[i].mime
         ELSE MismatchFrom_noException(i + 1, signature, declared)

\* the for loop over FILE_SIGNATURES from entry i on: the first signature the
\* payload starts with decides, then break
RECURSIVE MismatchFrom(_, _, _)
MismatchFrom(i, signature, declared) ==
    IF i > Len(FILE_SIGNATURES) THEN FALSE
    ELSE IF StartsWith(signature, FILE_SIGNATURES[i].sig)
         THEN /\ declared # FILE_SIGNATURES[i].mime
              /\ ~(Contains(declared, "openxmlformats") /\ FILE_SIGNATURES[i].mime = <<"application/zip">>)
         ELSE MismatchFrom(i + 1, signature, declared)

\* hashlib.sha256(payload).hexdigest(): distinct payloads, distinct digests
Sha256(payload) ==
    CASE payload = <<"4d", "5a", "90", "00">> -> "sha256-of-mz"
      [] payload = <<"25", "50", "44", "46", "2d">> -> "sha256-of-pdf"
      [] payload = <<"50", "4b", "03", "04">> -> "sha256-of-pk"
      [] OTHER -> "sha256-of-other"

\* f'{len(payload) / 1024:.2f} KB', the number in hundredths of a KB
SizeText(payload) == <<ToString((Len(payload) * 100 + 512) \div 1024), "/100", " KB">>

\* analyze_attachment(part, results): the results after the call
analyze_attachment(part, res) ==
    IF part.filename = <<>> THEN res
    ELSE LET e  == AttachmentExtension(part.filename)
             r1 == AddFinding(res, "attachments", Finding(<<"attachment">>, e.details, e.status), e.risk)
         IN  IF part.payload = <<>> THEN r1
             ELSE LET r2 == AddFinding(r1, "attachments",
                                       Finding(<<"file size">>, SizeText(part.payload), "info"), 0)
                      r3 == AddFinding(r2, "attachments",
                                       Finding(<<"file hash (SHA-256)">>, <<Sha256(part.payload)>>, "info"), 0)
                  IN  IF MismatchFrom(1, First8(part.payload), part.ctype)
                      THEN AddFinding(r3, "attachments",
                                      Finding(<<"MIME type mismatch">>,
                                              <<"declared and actual file type may differ">>, "danger"),
                                      40)
                      ELSE r3

-----------------------------------------------------------------------------
(* analyze_headers *)

\* characters of \w and of the word side of \b, as tokens
AlphaTokens ==
    {"spf", "dkim", "dmarc", "SPF", "Dkim", "DMARC", "pass", "PASS", "fail", "none", "from", "by", "mx"}

IsWordToken(tok) == tok \in Digits \/ tok \in AlphaTokens

\* decode_subject(header): "" for a missing header; the headers of the model
\* carry no MIME encoded-words, so the decoded text is the header text
decode_subject(header) == header

\* a helper that returns the header value as it is
get_email_address_raw(header_value) == header_value

\* get_email_address: the text inside the first <...>, else the value itself
get_email_address(header_value) ==
    IF \E i \in 1..Len(header_value) : \E j \in (i + 2)..Len(header_value) :
           /\ header_value[i] = "<"
           /\ header_value[j] = ">"
           /\ \A k \in (i + 1)..(j - 1) : header_value[k] # ">"
    THEN LET i == CHOOSE a \in 1..Len(header_value) :
                    /\ header_value[a] = "<"
                    /\ \E j \in (a + 2)..Len(header_value) :
                          header_value[j] = ">" /\ \A k \in (a + 1)..(j - 1) : header_value[k] # ">"
                    /\ \A b \in 1..(a - 1) :
                          ~(/\ header_value[b] = "<"
                            /\ \E j \in (b + 2)..Len(header_value) :
                                  header_value[j] = ">" /\ \A k \in (b + 1)..(j - 1) : header_value[k] # ">")
             j == CHOOSE c \in (i + 2)..Len(header_value) :
                    header_value[c] = ">" /\ \A k \in (i + 1)..(c - 1) : header_value[k] # ">"
         IN  SubSeq(header_value, i + 1, j - 1)
    ELSE header_value

\* length of the greedy match of \d{1,3}(\.\d{1,3}){k-1}\b at the head of s, 0
\* when there is none
RECURSIVE QuadLen(_, _)
QuadLen(s, k) ==
    LET ok(n) == /\ DigitRun(s) >= n
                 /\ IF k = 1 THEN Len(s) = n \/ ~IsWordToken(s[n + 1])
                    ELSE /\ Len(s) > n
                         /\ s[n + 1] = "."
                         /\ QuadLen(SubSeq(s, n + 2, Len(s)), k - 1) > 0
        len(n) == IF k = 1 THEN n ELSE n + 1 + QuadLen(SubSeq(s, n + 2, Len(s)), k - 1)
    IN  IF ok(3) THEN len(3) ELSE IF ok(2) THEN len(2) ELSE IF ok(1) THEN len(1) ELSE 0

\* re.findall(r'\b\d{1,3}\.\d{1,3}\.\d{1,3}\.\d{1,3}\b', h) scanning from token i
RECURSIVE FindIPsFrom(_, _)
FindIPsFrom(h, i) ==
    IF i > Len(h) THEN <<>>
    ELSE LET n == IF i = 1 \/ ~IsWordToken(h[i - 1]) THEN QuadLen(SubSeq(h, i, Len(h)), 4) ELSE 0
         IN  IF n > 0 THEN <<SubSeq(h, i, i + n - 1)>> \o FindIPsFrom(h, i + n)
             ELSE FindIPsFrom(h, i + 1)

\* [ip for h in received_headers for ip in re.findall(ip_regex, h)]
RECURSIVE PathIPs(_)
PathIPs(received_headers) ==
    IF received_headers = <<>> THEN <<>>
    ELSE FindIPsFrom(received_headers[1], 1) \o PathIPs(Tail(received_headers))

\* re.search(rf'{auth_type}=(\w+)', auth_results): the position of the name
\* token of the first match, 0 when there is none
AuthMatch(auth_results, auth_type) ==
    LET hits == {i \in 1..(Len(auth_results) - 2) :
                    /\ auth_results[i] = auth_type
                    /\ auth_results[i + 1] = "="
                    /\ IsWordToken(auth_results[i + 2])}
    IN  IF hits = {} THEN 0 ELSE CHOOSE i \in hits : \A j \in hits : i <= j

\* auth_type.upper()
Upper(tok) ==
    CASE tok = "spf" -> "SPF"
      [] tok = "dkim" -> "DKIM"
      [] tok = "dmarc" -> "DMARC"
      [] tok = "pass" -> "PASS"
      [] OTHER -> tok

\* a round that reports a mechanism without result as failed
AuthCheck_absentFails(res, auth_results, auth_type) ==
    LET m == AuthMatch(auth_results, auth_type)
    IN  IF m # 0 /\ Lower(auth_results[m + 2]) = "pass"
        THEN AddFinding(res, "header",
                        Finding(<<Upper(auth_type), " authentication">>, <<"passed (pass)">>, "safe"), 0)
        ELSE AddFinding(res, "header",
                        Finding(<<Upper(auth_type), " authentication">>, <<"failed">>, "danger"), 20)

\* one round of the loop over ['spf', 'dkim', 'dmarc']
AuthCheck(res, auth_results, auth_type) ==
    LET m == AuthMatch(auth_results, auth_type)
        status == Lower(auth_results[m + 2])
    IN  IF m # 0
        THEN IF status # "pass"
             THEN AddFinding(res, "header",
                             Finding(<<Upper(auth_type), " authentication">>, <<"failed (", status, ")">>, "danger"), 20)
             ELSE AddFinding(res, "header",
                             Finding(<<Upper(auth_type), " authentication">>, <<"passed (pass)">>, "safe"), 0)
        ELSE AddFinding(res, "header",
                        Finding(<<Upper(auth_type), " authentication">>, <<"no result">>, "info"), 0)

\* a path test that already fires at five Received headers
TooManyRelays_atFive(received_headers) == Len(received_headers) >= 5

\* if len(received_headers) > 5
TooManyRelays(received_headers) == Len(received_headers) > 5

\* analyze_headers(msg, results): the results after the call.  A header that
\* the message lacks is the empty text (msg.get gives None, decode_subject "").
analyze_headers(h, res) ==
    LET from_addr   == decode_subject(h.From)
        r1 == AddFinding(res, "header", Finding(<<"sender (From)">>, from_addr, "info"), 0)
        r2 == AddFinding(r1, "header", Finding(<<"recipient (To)">>, decode_subject(h.To), "info"), 0)
        r3 == AddFinding(r2, "header", Finding(<<"subject (Subject)">>, decode_subject(h.Subject), "info"), 0)
        r4 == AddFinding(r3, "header",
                         Finding(<<"mail client (X-Mailer)">>, IF h.XMailer = <<>> THEN <<"N/A">> ELSE h.XMailer, "info"), 0)
        from_email  == get_email_address(from_addr)
        return_path == get_email_address(h.ReturnPath)
        r5 == IF from_email # <<>> /\ return_path # <<>> /\ from_email # return_path
              THEN AddFinding(r4, "header",
                              Finding(<<"From/Return-Path mismatch">>, <<"sender and return address differ">>, "warn"), 15)
              ELSE r4
        reply_to    == get_email_address(h.ReplyTo)
        r6 == IF from_email # <<>> /\ reply_to # <<>> /\ from_email # reply_to
              THEN AddFinding(r5, "header",
                              Finding(<<"From/Reply-To mismatch">>, <<"sender and reply address differ">>, "warn"), 15)
              ELSE r5
        r7 == IF TooManyRelays(h.Received)
              THEN AddFinding(r6, "header",
                              Finding(<<"mail server path">>, <<"many relay servers: ", ToString(Len(h.Received))>>, "warn"), 10)
              ELSE r6
        path_ips    == PathIPs(h.Received)
        r8 == IF path_ips # <<>>
              THEN AddFinding(r7, "header", Finding(<<"relay IP addresses">>, Join(path_ips, " -> "), "info"), 0)
              ELSE r7
    IN  AuthCheck(AuthCheck(AuthCheck(r8, h.AuthResults, "spf"), h.AuthResults, "dkim"), h.AuthResults, "dmarc")

-----------------------------------------------------------------------------
(* analyze_html_body *)

\* SOCIAL_ENGINEERING_KEYWORDS (Korean in the source), in list order
SOCIAL_ENGINEERING_KEYWORDS ==
    <<"urgent", "warning", "account", "locked", "security", "update", "verify", "confirm", "password",
      "expired", "login", "click", "immediately", "bank", "payment", "invoice", "legal", "action">>

\* whether needle occurs in s as a contiguous run of tokens: needle in s
IsSubText(needle, s) ==
    \E i \in 0..(Len(s) - Len(needle)) : SubSeq(s, i + 1, i + Len(needle)) = needle

\* text.replace(" ", "")
RECURSIVE StripSpaces(_)
StripSpaces(s) ==
    IF s = <<>> THEN <<>>
    ELSE (IF s[1] = " " THEN <<>> ELSE <<s[1]>>) \o StripSpaces(Tail(s))

\* [kw for kw in SOCIAL_ENGINEERING_KEYWORDS if kw in text_content]
RECURSIVE FoundKeywords(_, _)
FoundKeywords(text_content, i) ==
    IF i > Len(SOCIAL_ENGINEERING_KEYWORDS) THEN <<>>
    ELSE (IF Contains(text_content, SOCIAL_ENGINEERING_KEYWORDS[i])
          THEN <<<<SOCIAL_ENGINEERING_KEYWORDS[i]>>>> ELSE <<>>) \o FoundKeywords(text_content, i + 1)

\* the keyword block of analyze_html_body
BodyKeywords(html, res) ==
    LET found_keywords == FoundKeywords(LowerText(html.text), 1)
    IN  IF Len(found_keywords) > 2
        THEN AddFinding(res, "body",
                        Finding(<<"social engineering keywords">>,
                                <<"suspicious keywords found: ">> \o Join(SubSeq(found_keywords, 1, 3), ", ") \o <<"...">>,
                                "warn"), 15)
        ELSE res

\* the loop over soup.find_all('a', href=True) from anchor i on
RECURSIVE BodyLinks(_, _, _)
BodyLinks(anchors, i, res) ==
    IF i > Len(anchors) THEN res
    ELSE LET href == anchors[i].href
             text == anchors[i].text
             r1 == IF text # <<>> /\ href # text /\ ~IsSubText(StripSpaces(text), href)
                   THEN AddFinding(res, "body",
                                   Finding(<<"link/text mismatch">>,
                                           <<"shown(">> \o text \o <<") and actual link(">> \o href \o <<") differ">>,
                                           "danger"), 25)
                   ELSE res
         IN  BodyLinks(anchors, i + 1, analyze_url(href, r1))

\* the loop over soup.find_all('img', src=True) from image i on
RECURSIVE BodyImages(_, _, _)
BodyImages(imgs, i, res) ==
    IF i > Len(imgs) THEN res
    ELSE BodyImages(imgs, i + 1,
                    IF \/ Contains(imgs[i].style, "width:1px")
                       \/ Contains(imgs[i].style, "height:1px")
                       \/ (imgs[i].width = "1" /\ imgs[i].height = "1")
                    THEN AddFinding(res, "body",
                                    Finding(<<"tracking pixel suspected">>, <<"hidden 1x1 image">>, "warn"), 10)
                    ELSE res)

\* the loop over the elements selected by display:none / visibility:hidden
RECURSIVE BodyHidden(_, _, _)
BodyHidden(elements, i, res) ==
    IF i > Len(elements) THEN res
    ELSE BodyHidden(elements, i + 1,
                    IF /\ (Contains(elements[i].style, "display:none") \/ Contains(elements[i].style, "visibility:hidden"))
                       /\ elements[i].text # <<>>
                    THEN AddFinding(res, "body",
                                    Finding(<<"hidden content">>, <<"invisible text/link: <", elements[i].name, ">">>, "warn"), 10)
                    ELSE res)

\* analyze_html_body(html_content, results): the results after the call
analyze_html_body(html, res) ==
    LET r1 == BodyKeywords(html, res)
        r2 == BodyLinks(html.anchors, 1, r1)
        r3 == BodyImages(html.imgs, 1, r2)
        r4 == BodyHidden(html.elements, 1, r3)
    IN  IF html.scripts > 0
        THEN AddFinding(r4, "body", Finding(<<"Javascript included">>, <<"the mail body contains a script">>, "warn"), 15)
        ELSE r4

-----------------------------------------------------------------------------
(* calculate_summary *)

\* sum(results['riskScores'].values())
SumScores(riskScores) == riskScores.header + riskScores.body + riskScores.attachments + riskScores.urls

\* a total that is not clamped
ClampTotal_unclamped(total) == total

\* total_score = min(100, total_score)
ClampTotal(total) == Min(100, total)

\* a level chain whose thresholds are exclusive
SummaryLevel_exclusive(total_score) ==
    IF total_score > 70 THEN "high"
    ELSE IF total_score > 40 THEN "caution"
    ELSE IF total_score > 10 THEN "low"
    ELSE "safe"

\* the level chain of calculate_summary ('높음', '주의', '낮음', '안전')
SummaryLevel(total_score) ==
    IF total_score >= 70 THEN "high"
    ELSE IF total_score >= 40 THEN "caution"
    ELSE IF total_score >= 10 THEN "low"
    ELSE "safe"

\* the fixed message of each level
SummaryMessage(level) ==
    CASE level = "high" -> "very likely a phishing mail: delete it at once"
      [] level = "caution" -> "several risk factors found: take care with links and attachments"
      [] level = "low" -> "some suspicious points, direct threat looks low"
      [] OTHER -> "no particular threat detected"

\* calculate_summary(results): the results after the call
calculate_summary(res) ==
    LET total_score == ClampTotal(SumScores(res.riskScores))
    IN  [res EXCEPT !.summary = [totalScore |-> total_score,
                                 level |-> SummaryLevel(total_score),
                                 message |-> SummaryMessage(SummaryLevel(total_score))]]

-----------------------------------------------------------------------------
(* Reputation lookups and enrichment *)

\* what a lookup function returns when the request failed
None == [none |-> TRUE, days |-> -1, positives |-> -1, total |-> -1]

\* an except branch that returns an empty report instead of None
Returned_emptyReport(answer) ==
    IF answer.status = 200
    THEN [none |-> FALSE, days |-> answer.days, positives |-> answer.positives, total |-> answer.total]
    ELSE [none |-> FALSE, days |-> 0, positives |-> 0, total |-> 0]

\* response.json() of a 200 answer; None from the except branch otherwise.
\* status 0 stands for a request without response (timeout, connection error).
Returned(answer) ==
    IF answer.status = 200
    THEN [none |-> FALSE, days |-> answer.days, positives |-> answer.positives, total |-> answer.total]
    ELSE None

\* bool(e.response): a requests.Response is truthy iff its status is below
\* 400 (Response.__bool__ returns Response.ok); a timeout carries no response
ResponseTruthy(answer) == answer.status # 0 /\ answer.status < 400

\* get_vt_report_from_api: e.response and e.response.status_code == 503
FlagsKeyMissing(answer) ==
    answer.status # 200 /\ ResponseTruthy(answer) /\ answer.status = 503

WhoisKey(hostname) == [fn |-> "get_domain_info_from_api", endpoint |-> "", resource |-> hostname]

VtKey(endpoint, resource) == [fn |-> "get_vt_report_from_api", endpoint |-> endpoint, resource |-> resource]

\* an age test that also takes day 30 as new
IsNewDomain_inclusive(days) == days <= 30

\* if days < 30
IsNewDomain(days) == days < 30

\* a score without the cap
VtScore_uncapped(positives) == positives * 10

\* min(positives * 10, 50)
VtScore(positives) == Min(positives * 10, 50)

\* the body of the loop of get_domain_reputation_findings for one hostname
DomainFindings(hostname, whois_report, vt_report) ==
    LET age == IF ~whois_report.none /\ whois_report.days >= 0
               THEN IF IsNewDomain(whois_report.days)
                    THEN [findings |-> <<Finding(<<"domain trust - ">> \o hostname,
                                                 <<"newly registered domain, days: ", ToString(whois_report.days)>>,
                                                 "danger")>>,
                          scores |-> 30]
                    ELSE [findings |-> <<Finding(<<"domain info - ">> \o hostname,
                                                 <<"created: ", "creation_date[:10]">>, "info")>>,
                          scores |-> 0]
               ELSE [findings |-> <<>>, scores |-> 0]
        vt  == IF ~vt_report.none
               THEN IF vt_report.positives > 0
                    THEN [findings |-> <<Finding(<<"VirusTotal reputation - ">> \o hostname,
                                                 <<"malicious/suspicious: ", ToString(vt_report.positives), "/",
                                                   ToString(vt_report.total)>>, "danger")>>,
                          scores |-> VtScore(vt_report.positives)]
                    ELSE IF vt_report.total > 0
                    THEN [findings |-> <<Finding(<<"VirusTotal reputation - ">> \o hostname,
                                                 <<"scan complete, engines: ", ToString(vt_report.total)>>, "safe")>>,
                          scores |-> 0]
                    ELSE [findings |-> <<>>, scores |-> 0]
               ELSE [findings |-> <<>>, scores |-> 0]
    IN  [findings |-> age.findings \o vt.findings, scores |-> age.scores + vt.scores]

\* the body of the loop of get_file_reputation_findings for one hash
FileFindings(file_hash, vt_report) ==
    IF ~vt_report.none
    THEN IF vt_report.positives > 0
         THEN [findings |-> <<Finding(<<"file reputation - ">> \o file_hash \o <<"...">>,
                                      <<"malicious/suspicious: ", ToString(vt_report.positives), "/",
                                        ToString(vt_report.total)>>, "danger")>>,
               scores |-> VtScore(vt_report.positives)]
         ELSE IF vt_report.total > 0
         THEN [findings |-> <<Finding(<<"file reputation - ">> \o file_hash \o <<"...">>,
                                      <<"scan complete, engines: ", ToString(vt_report.total)>>, "safe")>>,
               scores |-> 0]
         ELSE [findings |-> <<>>, scores |-> 0]
    ELSE [findings |-> <<>>, scores |-> 0]

\* main(): url_item['value'].split('Domain: ')[1].split(' - ')[0]
DomainOf(value) == SplitFirst(SplitSecond(value, "Domain: "), " - ")

\* a collection that keeps the IP-literal domains
UniqueHostnames_all(res) ==
    {DomainOf(res.urls[i].value) : i \in {j \in 1..Len(res.urls) : Contains(res.urls[j].value, "Domain: ")}}

\* main(): the non-IP domains of the url items that carry 'Domain:'
UniqueHostnames(res) ==
    {d \in {DomainOf(res.urls[i].value) :
               i \in {j \in 1..Len(res.urls) : Contains(res.urls[j].value, "Domain: ")}} :
        ~IsIPv4Literal(d)}

\* main(): the values of the attachment items named file hash
UniqueHashes(res) ==
    {res.attachments[i].value :
        i \in {j \in 1..Len(res.attachments) : res.attachments[j].item = <<"file hash (SHA-256)">>}}

\* iterating a set of str: the elements in the order this process' string
\* hashing gives them.  The order of a process shows, and is drawn, the first
\* time it iterates a set of two; until then it is <<>>.
SetOrder(S, order) ==
    IF Cardinality(S) <= 1 THEN IF S = {} THEN <<>> ELSE <<CHOOSE x \in S : TRUE>>
    ELSE SelectSeq(order, LAMBDA x : x \in S)

\* a merge that assigns the enrichment score to the category
Extend_assign(res, cat, fs, sc) ==
    [res EXCEPT ![cat] = @ \o fs, !.riskScores[cat] = sc]

\* a merge that puts the enrichment findings in front
Extend_prepend(res, cat, fs, sc) ==
    [res EXCEPT ![cat] = fs \o @, !.riskScores[cat] = @ + sc]

\* results[cat].extend(findings); results['riskScores'][cat] += scores
Extend(res, cat, fs, sc) ==
    [res EXCEPT ![cat] = @ \o fs, !.riskScores[cat] = @ + sc]

-----------------------------------------------------------------------------
(* Inputs of analyze_url: the hrefs handed to it *)

HostIP == <<"1", "9", "2", ".", "1", "6", "8", ".", "1", ".", "1">>

HostPlain == <<"example", ".", "com">>

HostUpper == <<"Example", ".", "COM">>

HostPuny == <<"xn--", "pple", ".", "xyz">>

PathDeep == <<"/", "a", "/", "b", "/", "c", "/", "d">>

PathThree == <<"/", "a", "/", "b", "/", "c">>

QueryRedirect == <<"?", "redirect", "=", "1">>

QueryEmail == <<"?", "id", "=", "user", "@", "example", ".", "com">>

QueryMyToken == <<"?", "mytoken", "=", "1">>

\* http://192.168.1.1/a/b/c/d?redirect=1
UrlScenarioC == <<"http", "://">> \o HostIP \o PathDeep \o QueryRedirect

Urls ==
    { <<s, "://">> \o h \o p \o q :
        s \in {"http", "https"}, h \in {HostIP, HostPlain, HostUpper, HostPuny},
        p \in {<<>>, PathDeep}, q \in {<<>>, QueryRedirect} }
    \cup { <<"https", "://">> \o HostPlain \o PathThree,
           <<"https", "://">> \o HostPlain \o QueryEmail,
           <<"https", "://">> \o HostPlain \o QueryMyToken,
           <<"https", "://">> \o HostIP \o PathThree \o QueryEmail,
           <<>>,
           <<"/", "a">>,
           <<"#">> }

-----------------------------------------------------------------------------
(* Inputs of analyze_attachment: the attachment parts handed to it *)

FileInvoice == <<"invoice", ".", "pdf", ".", "exe">>

PayloadMZ == <<"4d", "5a", "90", "00">>

PayloadPDF == <<"25", "50", "44", "46", "2d">>

PayloadPK == <<"50", "4b", "03", "04">>

TypeOOXML == <<"application/vnd.", "openxmlformats", "-officedocument.wordprocessingml.document">>

\* the parsed document of a part that is no text/html part
NoHtml == [text |-> <<>>, anchors |-> <<>>, imgs |-> <<>>, elements |-> <<>>, scripts |-> 0]

Filenames ==
    { <<>>, <<"report", ".", "pdf">>, FileInvoice, <<"setup", ".", "EXE">>,
      <<"archive", ".", "tar", ".", "gz">>, <<"notes">> }

Payloads == { <<>>, PayloadMZ, PayloadPDF, PayloadPK, <<"00", "01">> }

ContentTypes ==
    { <<"application/pdf">>, <<"application/x-msdownload">>, <<"application/zip">>,
      TypeOOXML, <<"application/octet-stream">> }

AttachmentParts ==
    [disposition : {"attachment"}, filename : Filenames, payload : Payloads, ctype : ContentTypes,
     html : {NoHtml}]

\* invoice.pdf.exe, MZ payload, declared application/pdf
PartScenarioB ==
    [disposition |-> "attachment", filename |-> FileInvoice, payload |-> PayloadMZ,
     ctype |-> <<"application/pdf">>, html |-> NoHtml]

-----------------------------------------------------------------------------
(* Inputs of main(): the uploaded messages *)

NoHeaders ==
    [From |-> <<>>, To |-> <<>>, Subject |-> <<>>, XMailer |-> <<>>, ReturnPath |-> <<>>,
     ReplyTo |-> <<>>, Received |-> <<>>, AuthResults |-> <<>>]

\* From and Return-Path differ, six Received lines, spf fails, dkim passes
SpoofedHeaders ==
    [From |-> <<"Alice ", "<", "a@x.com", ">">>, To |-> <<"c@z.com">>, Subject |-> <<"Urgent">>,
     XMailer |-> <<>>, ReturnPath |-> <<"<", "b@y.com", ">">>, ReplyTo |-> <<>>,
     Received |-> << <<"from", " ", "mx", " ", "[", "1", "0", ".", "0", ".", "0", ".", "1", "]">>,
                     <<"by", " ", "mx">>, <<"by", " ", "mx">>, <<"by", " ", "mx">>,
                     <<"by", " ", "mx">>, <<"by", " ", "mx">> >>,
     AuthResults |-> <<"mx", ";", " ", "spf", "=", "fail", ";", " ", "dkim", "=", "pass">>]

-----------------------------------------------------------------------------
(* Inputs of analyze_headers: the headers msg.get reads *)

FromValues == {<<>>, <<"Alice ", "<", "a@x.com", ">">>, <<"a@x.com">>}

ReturnPathValues ==
    {<<>>, <<"<", "b@y.com", ">">>, <<"<", "a@x.com", ">">>, <<"a@x.com">>, <<"b@y.com">>}

ReplyToValues == {<<>>, <<"<", "a@x.com", ">">>, <<"Bob ", "<", "c@z.com", ">">>}

RelayLine == <<"by", " ", "mx">>

\* no Received line; five and six without address; three of which two name
\* an address; six of which the first names an address
\* a Received line that names the address of the sending host in brackets
RelayFrom(ip) == <<"from", " ", "mx", " ", "[">> \o ip \o <<"]">>

ReceivedValues ==
    {<<>>,
     <<RelayLine, RelayLine, RelayLine, RelayLine, RelayLine>>,
     <<RelayLine, RelayLine, RelayLine, RelayLine, RelayLine, RelayLine>>,
     <<RelayFrom(<<"1", "0", ".", "0", ".", "0", ".", "2">>), RelayLine, RelayFrom(HostIP)>>,
     SpoofedHeaders.Received}

SpfValues ==
    {<<>>, <<"spf", "=", "pass">>, <<"spf", "=", "fail">>, <<"SPF", "=", "fail">>, <<"spf", "=", "PASS">>}

DkimValues == {<<>>, <<"dkim", "=", "pass">>, <<"dkim", "=", "fail">>, <<"Dkim", "=", "fail">>}

DmarcValues == {<<>>, <<"dmarc", "=", "pass">>, <<"dmarc", "=", "none">>, <<"DMARC", "=", "none">>}

\* an Authentication-Results value: the server id, then "; result" per result
AuthLine(spf, dkim, dmarc) ==
    LET clause(r) == IF r = <<>> THEN <<>> ELSE <<";", " ">> \o r
    IN  IF spf = <<>> /\ dkim = <<>> /\ dmarc = <<>> THEN <<>>
        ELSE <<"mx">> \o clause(spf) \o clause(dkim) \o clause(dmarc)

HeaderInputs ==
    {[From |-> f, To |-> <<"c@z.com">>, Subject |-> <<>>, XMailer |-> <<>>, ReturnPath |-> rp,
      ReplyTo |-> rt, Received |-> rc, AuthResults |-> AuthLine(spf, dkim, dmarc)] :
        f \in FromValues, rp \in ReturnPathValues, rt \in ReplyToValues, rc \in ReceivedValues,
        spf \in SpfValues, dkim \in DkimValues, dmarc \in DmarcValues}

-----------------------------------------------------------------------------
(* Inputs of main(), continued: the leaf parts *)

HtmlPart(html) ==
    [disposition |-> "none", filename |-> <<>>, payload |-> <<>>, ctype |-> <<"text/html">>, html |-> html]

\* two links to http://192.168.1.1/a/b/c/d?redirect=1
PartSameHost ==
    HtmlPart([NoHtml EXCEPT
                !.text = <<"click", " ", "here">>,
                !.anchors = << [href |-> UrlScenarioC, text |-> <<"click">>],
                               [href |-> UrlScenarioC, text |-> <<>>] >>])

\* links to two hostnames, three keywords, a tracking pixel, a script
PartTwoHosts ==
    HtmlPart([text |-> <<"Urgent", " ", "account", " ", "locked">>,
              anchors |-> << [href |-> <<"https", "://">> \o HostPuny, text |-> <<"https", "://">> \o HostPlain],
                             [href |-> <<"https", "://">> \o HostPlain \o <<"/", "a">>, text |-> HostPlain] >>,
              imgs |-> << [style |-> <<"width:1px">>, width |-> "", height |-> ""] >>,
              elements |-> << [name |-> "div", style |-> <<"display:none">>, text |-> <<"x">>] >>,
              scripts |-> 1])

LeafParts == {PartSameHost, PartTwoHosts, PartScenarioB}

RECURSIVE SeqsUpTo(_, _)
SeqsUpTo(S, n) ==
    IF n = 0 THEN {<<>>}
    ELSE SeqsUpTo(S, n - 1) \cup {Append(q, x) : q \in SeqsUpTo(S, n - 1), x \in S}

\* the messages a user can upload: headers and the leaf parts of msg.walk()
Messages == [headers : {NoHeaders, SpoofedHeaders}, parts : SeqsUpTo(LeafParts, MaxParts)]

NoMessage == [headers |-> NoHeaders, parts |-> <<>>]

\* the answers of the domain-age service: 200 with an age of 5 days, or no
\* response (timeout)
WhoisAnswers ==
    { [status |-> 200, days |-> 5, positives |-> -1, total |-> -1],
      [status |-> 0, days |-> -1, positives |-> -1, total |-> -1] }

\* the answers of the malware-reputation service: 200 with 3 positives of 70
\* engines, or 503 (the server has no API key)
VtAnswers ==
    { [status |-> 200, days |-> -1, positives |-> 3, total |-> 70],
      [status |-> 503, days |-> -1, positives |-> -1, total |-> -1] }

-----------------------------------------------------------------------------
(* Inputs of calculate_summary: results the analyzers of a run leave *)

\* headers that score 0, 10, 15, 20 and 45
SummaryHeaders ==
    {NoHeaders,
     [NoHeaders EXCEPT !.Received = SpoofedHeaders.Received],
     [NoHeaders EXCEPT !.From = <<"a@x.com">>, !.ReturnPath = <<"<", "b@y.com", ">">>],
     [NoHeaders EXCEPT !.AuthResults = <<"mx", ";", " ", "spf", "=", "fail">>],
     SpoofedHeaders}

\* attachments that score 0 (none), 20, 30 and 70
SummaryParts ==
    {[PartScenarioB EXCEPT !.filename = <<>>],
     [PartScenarioB EXCEPT !.filename = <<"archive", ".", "tar", ".", "gz">>, !.payload = <<>>],
     [PartScenarioB EXCEPT !.filename = <<"setup", ".", "EXE">>, !.payload = <<>>],
     PartScenarioB}

\* hrefs that score 0 (none), 0, 10, 15, 40 and 75
SummaryUrls ==
    {<<>>,
     <<"https", "://">> \o HostPlain,
     <<"http", "://">> \o HostPlain,
     <<"https", "://">> \o HostPlain \o PathDeep,
     <<"https", "://">> \o HostIP,
     UrlScenarioC}

SummaryInputs ==
    {analyze_url(u, analyze_attachment(part, analyze_headers(h, NewResults))) :
        h \in SummaryHeaders, part \in SummaryParts, u \in SummaryUrls}

-----------------------------------------------------------------------------
(* Inputs of the reputation functions: the answers of the services *)

\* the domain-age endpoint: 200 with days_since_creation (-1 when the record
\* has no creation date), 404 for every failure of the whois query, or no
\* response
RepWhoisAnswers ==
    {[status |-> 200, days |-> d, positives |-> -1, total |-> -1] : d \in {-1, 0, 29, 30, 400}}
    \cup {[status |-> 404, days |-> -1, positives |-> -1, total |-> -1],
          [status |-> 0, days |-> -1, positives |-> -1, total |-> -1]}

\* the malware-reputation endpoints: 200 with positives and total (0 and 0
\* when VirusTotal has no record), 503 without API key, or no response
RepVtAnswers ==
    {[status |-> 200, days |-> -1, positives |-> pt[1], total |-> pt[2]] :
        pt \in {<<0, 0>>, <<0, 70>>, <<1, 70>>, <<5, 70>>, <<6, 70>>, <<70, 70>>}}
    \cup {[status |-> 503, days |-> -1, positives |-> -1, total |-> -1],
          [status |-> 0, days |-> -1, positives |-> -1, total |-> -1]}

\* the analyzers' results for a message with invoice.pdf.exe attached and a
\* link to the hostname
RepBase(hostname) ==
    analyze_url(<<"https", "://">> \o hostname, analyze_attachment(PartScenarioB, NewResults))

-----------------------------------------------------------------------------
(* The API server (src/api_server.py) and the database (src/core/db_manager.py) *)

\* the answers of the quiz: '피싱', '정상'; "시간 초과"; None
Phishing == "phishing"

Normal == "normal"

TimedOut == "timed out"

NoChoice == "no choice"

\* the methods class DBManager defines
DBManagerMethods == {"__init__", "create_table", "get_all_questions", "close"}

\* DBManager.get_all_questions: the rows, [] without a connection
DBManager_get_all_questions(db) == IF db.conn THEN db.rows ELSE <<>>

\* an HTTP response: the status and the decoded body
HttpResponse(status, json) == [status |-> status, json |-> json]

\* raise HTTPException(status_code=..., detail=...)
HTTPException(status_code, detail) == HttpResponse(status_code, [detail |-> detail])

\* no response yet, and a request that got none (connection refused, timeout)
NoResponse == HttpResponse(0, [detail |-> <<>>])

\* GET /questions
get_all_questions(db) ==
    IF ~db.manager
    THEN HTTPException(500, <<"database connection failed">>)
    ELSE LET questions == DBManager_get_all_questions(db)
         IN  IF questions = <<>>
             THEN HTTPException(404, <<"no quiz questions found">>)
             ELSE HttpResponse(200, questions)

\* the try block of submit_answer: what it raises.  DBManager has no method
\* get_question_by_id, so the attribute lookup of line 61 raises and lines
\* 62-99 are never reached.
SubmitAnswerRaises(db, answer_request) ==
    IF "get_question_by_id" \notin DBManagerMethods THEN "AttributeError" ELSE "HTTPException"

\* POST /submit_answer: except Exception turns whatever the try block raises
\* into a 500
submit_answer(db, answer_request) ==
    IF ~db.manager
    THEN HTTPException(500, <<"database connection failed">>)
    ELSE HTTPException(500, <<"error while processing the answer: ", SubmitAnswerRaises(db, answer_request)>>)

-----------------------------------------------------------------------------
(* The quiz page (src/pages/quiz_game.py) *)

TIME_LIMIT_SECONDS == 30

NUM_QUESTIONS == 10

\* a session without keys
NoSession == [k \in {} |-> FALSE]

\* st.session_state.get(key, default)
SessionGet(ss, key, default) == IF key \in DOMAIN ss THEN ss[key] ELSE default

\* assignments to keys of the session state
SessionSet(ss, assigned) == assigned @@ ss

\* del st.session_state[key] for the keys that are present
SessionDel(ss, keys) == [k \in DOMAIN ss \ keys |-> ss[k]]

\* the sample questions: id and label (the subject and the body are only shown)
load_questions_from_local ==
    << [id |-> 1, label |-> 1], [id |-> 2, label |-> 0], [id |-> 3, label |-> 1] >>

\* response.raise_for_status() raised, or the request itself failed
RequestFailed(reply) == reply.status < 200 \/ reply.status >= 400

load_questions_from_api(reply) ==
    IF RequestFailed(reply) THEN load_questions_from_local ELSE reply.json

\* random.shuffle: the orders a list can be left in
Shuffles(list) ==
    {p \in [1..Len(list) -> {list[i] : i \in 1..Len(list)}] :
        \A i, j \in 1..Len(list) : i # j => p[i] # p[j]}

\* reset_question_state(): the keys it assigns (question_start_time is the
\* clock, so elapsed_time starts at 0 again)
reset_question_state == [answer_submitted |-> FALSE, user_choice |-> NoChoice]

\* initialize_game() with the order the shuffle left
initialize_game(ss, shuffled) ==
    SessionSet(ss, [all_questions |-> shuffled,
                    questions |-> SubSeq(shuffled, 1, Min(NUM_QUESTIONS, Len(shuffled))),
                    game_started |-> TRUE,
                    game_finished |-> FALSE,
                    current_question_index |-> 0,
                    score |-> 0,
                    user_answers |-> <<>>] @@ reset_question_state)

\* the except branch of submit_answer_to_api: the answer graded on the page
LocalResult(question_id, user_choice, questions) ==
    LET current_question ==
            questions[CHOOSE i \in 1..Len(questions) :
                        /\ questions[i].id = question_id
                        /\ \A j \in 1..(i - 1) : questions[j].id # question_id]
        correct_answer == IF current_question.label = 1 THEN Phishing ELSE Normal
        is_correct == user_choice = correct_answer
    IN  [is_correct |-> is_correct,
         explanation |-> <<"This mail is a ", correct_answer, " mail. ",
                           IF is_correct THEN "well spotted" ELSE "look again">>,
         score_earned |-> IF is_correct THEN 10 ELSE 0]

\* submit_answer_to_api(question_id, user_choice), given the reply to the POST
submit_answer_to_api(question_id, user_choice, reply, questions) ==
    IF RequestFailed(reply)
    THEN LocalResult(question_id, user_choice, questions)
    ELSE [is_correct |-> reply.json.is_correct,
          explanation |-> reply.json.explanation,
          score_earned |-> reply.json.score_earned]

\* a grading that takes 10 points for a wrong answer
ScoreAfter_penalty(score, is_correct, score_earned) ==
    IF is_correct THEN score + score_earned ELSE score - 10

\* if is_correct: st.session_state.score += score_earned
ScoreAfter(score, is_correct, score_earned) ==
    IF is_correct THEN score + score_earned ELSE score

\* lines 185-245: a run of the script on a question that is not answered,
\* with the value of the radio, whether the submit button was clicked and the
\* reply the POST would get
QuestionRun(ss, elapsed, radio, submit_button, reply) ==
    LET current_question == ss.questions[ss.current_question_index + 1]
        remaining_time == Max(0, TIME_LIMIT_SECONDS - elapsed)
        chosen == SessionSet(ss, [user_choice |-> radio])
    IN  IF ~(submit_button \/ remaining_time = 0) THEN chosen
        ELSE IF radio = NoChoice /\ remaining_time # 0 THEN chosen
        ELSE LET user_choice == IF radio = NoChoice THEN TimedOut ELSE radio
                 result == IF user_choice # TimedOut
                           THEN submit_answer_to_api(current_question.id, user_choice, reply, ss.questions)
                           ELSE [is_correct |-> FALSE,
                                 explanation |-> <<"marked wrong because the time ran out">>,
                                 score_earned |-> 0]
             IN  SessionSet(ss,
                   [user_choice |-> user_choice,
                    score |-> ScoreAfter(ss.score, result.is_correct, result.score_earned),
                    user_answers |-> Append(ss.user_answers,
                                            [question_data |-> current_question,
                                             user_choice |-> user_choice,
                                             is_correct |-> result.is_correct,
                                             explanation |-> result.explanation]),
                    answer_submitted |-> TRUE])

\* a button that ends the game one question early
AfterNextButton_early(ss) ==
    LET is_last_question == (ss.current_question_index + 2) >= Len(ss.questions)
    IN  IF ~is_last_question
        THEN SessionSet(ss, [current_question_index |-> ss.current_question_index + 1]
                            @@ reset_question_state)
        ELSE SessionSet(ss, [game_finished |-> TRUE])

\* lines 272-281: the button under the explanation
AfterNextButton(ss) ==
    LET is_last_question == (ss.current_question_index + 1) = Len(ss.questions)
    IN  IF ~is_last_question
        THEN SessionSet(ss, [current_question_index |-> ss.current_question_index + 1]
                            @@ reset_question_state)
        ELSE SessionSet(ss, [game_finished |-> TRUE])

\* lines 330-336: the keys the restart button deletes
RestartKeys ==
    {"game_started", "game_finished", "current_question_index", "score", "user_answers",
     "answer_submitted", "user_choice"}

-----------------------------------------------------------------------------
(* Inputs of the API server and of the quiz page *)

\* the rows of quiz_questions: none, one or two questions
QuizRows ==
    {<<>>}
    \cup {<<[id |-> i, label |-> l]>> : i \in {1, 2}, l \in {0, 1}}
    \cup {<<[id |-> 1, label |-> l1], [id |-> 2, label |-> l2]>> : l1, l2 \in {0, 1}}

\* db_manager: None, without connection, or connected to a table
Databases ==
    {[manager |-> FALSE, conn |-> FALSE, rows |-> <<>>],
     [manager |-> TRUE, conn |-> FALSE, rows |-> <<>>]}
    \cup {[manager |-> TRUE, conn |-> TRUE, rows |-> rows] : rows \in QuizRows}

\* AnswerRequest: question_id and user_choice
AnswerRequests == [question_id : {1, 2, 3}, user_choice : {Phishing, Normal, "other"}]

\* what a GET /questions of the page can come back with
QuestionsReplies == {NoResponse} \cup {get_all_questions(db) : db \in Databases}

\* what the POST /submit_answer of the page can come back with
AnswerReplies(question_id, user_choice) ==
    {NoResponse}
    \cup {submit_answer(db, [question_id |-> question_id, user_choice |-> user_choice]) :
            db \in Databases}

-----------------------------------------------------------------------------
(* Specifications *)

NoCall == [op |-> "none", arg |-> <<>>, before |-> NewResults, n |-> 0]

NoRun == [done |-> FALSE, msg |-> NoMessage, results |-> NewResults]

\* the iteration orders a process can give the sets of main()
HashOrders == {<<HostPlain, HostPuny>>, <<HostPuny, HostPlain>>}

\* a started server process before a file is uploaded
InitIdle ==
    /\ pc = "idle"
    /\ msg = NoMessage
    /\ partIdx = 0
    /\ results = NewResults
    /\ vt_key_missing = FALSE
    /\ warning = FALSE
    /\ cache = <<>>
    /\ service = <<>>
    /\ hashOrder = <<>>
    /\ unique_hostnames = {}
    /\ unique_hashes = {}
    /\ pending = <<>>
    /\ findings = <<>>
    /\ scores = 0
    /\ executed = {}
    /\ looked = {}
    /\ base = NewResults
    /\ prev = NoRun
    /\ last = NoCall
    /\ session_state = NoSession
    /\ elapsed_time = 0
    /\ response = NoResponse

\* lines 476-487: a run starts on the uploaded bytes with fresh results
StartRun(m) ==
    /\ pc' = "headers"
    /\ msg' = m
    /\ vt_key_missing' = FALSE
    /\ warning' = FALSE
    /\ results' = NewResults
    /\ partIdx' = 0
    /\ unique_hostnames' = {}
    /\ unique_hashes' = {}
    /\ pending' = <<>>
    /\ findings' = <<>>
    /\ scores' = 0
    /\ executed' = {}
    /\ looked' = {}
    /\ base' = NewResults

\* the user uploads a file; after a restart, the file analysed before
Upload ==
    /\ pc = "idle"
    /\ \E m \in Messages : (prev.done => m = prev.msg) /\ StartRun(m)
    /\ UNCHANGED quizVars
    /\ UNCHANGED <<cache, service, hashOrder, prev, last>>

\* the script runs again on the same upload (any interaction with the page)
Rerun ==
    /\ pc = "shown"
    /\ StartRun(msg)
    /\ UNCHANGED quizVars
    /\ UNCHANGED <<cache, service, hashOrder, prev, last>>

\* the server process is started anew: empty cache, new session, and the
\* string hashing of the new process
Restart ==
    /\ pc = "shown"
    /\ pc' = "idle"
    /\ cache' = <<>>
    /\ hashOrder' = <<>>
    /\ vt_key_missing' = FALSE
    /\ warning' = FALSE
    /\ results' = NewResults
    /\ UNCHANGED quizVars
    /\ UNCHANGED <<msg, partIdx, service, unique_hostnames, unique_hashes, pending, findings,
                   scores, executed, looked, base, prev, last>>

\* line 489
AnalyzeHeaders ==
    /\ pc = "headers"
    /\ results' = analyze_headers(msg.headers, results)
    /\ pc' = "walk"
    /\ partIdx' = 1
    /\ UNCHANGED quizVars
    /\ UNCHANGED <<msg, vt_key_missing, warning, cache, service, hashOrder, unique_hostnames,
                   unique_hashes, pending, findings, scores, executed, looked, base, prev, last>>

\* lines 491-500: one round of the loop over the leaf parts of msg.walk()
WalkPart ==
    /\ pc = "walk"
    /\ partIdx <= Len(msg.parts)
    /\ LET part == msg.parts[partIdx]
       IN  results' = IF part.disposition = "attachment" THEN analyze_attachment(part, results)
                      ELSE IF part.ctype = <<"text/html">> THEN analyze_html_body(part.html, results)
                      ELSE results
    /\ partIdx' = partIdx + 1
    /\ UNCHANGED quizVars
    /\ UNCHANGED <<pc, msg, vt_key_missing, warning, cache, service, hashOrder, unique_hostnames,
                   unique_hashes, pending, findings, scores, executed, looked, base, prev, last>>

\* lines 502-515: the sets of hostnames and hashes; then the loop of
\* get_domain_reputation_findings starts over the hostnames
ExtractKeys ==
    /\ pc = "walk"
    /\ partIdx > Len(msg.parts)
    /\ unique_hostnames' = UniqueHostnames(results)
    /\ unique_hashes' = UniqueHashes(results)
    /\ hashOrder' \in IF hashOrder = <<>> /\ Cardinality(UniqueHostnames(results)) > 1
                       THEN HashOrders ELSE {hashOrder}
    /\ pending' = SetOrder(UniqueHostnames(results), hashOrder')
    /\ findings' = <<>>
    /\ scores' = 0
    /\ base' = results
    /\ pc' = "domains"
    /\ UNCHANGED quizVars
    /\ UNCHANGED <<msg, partIdx, results, vt_key_missing, warning, cache, service,
                   executed, looked, prev, last>>

\* a call of a cached lookup function: the cached value on a hit (the body
\* does not run); else the value the body returns for the service's answer
LookupValue(key, answer) == IF key \in DOMAIN cache THEN cache[key] ELSE Returned(answer)

\* the service's answer for a key is the one it gave before, if it gave one
Answers(key, S) == IF key \in DOMAIN service THEN {service[key]} ELSE S

\* lines 325-362: one round of the loop of get_domain_reputation_findings
EnrichDomain ==
    /\ pc = "domains"
    /\ pending # <<>>
    /\ LET hostname == Head(pending)
           kw == WhoisKey(hostname)
           kv == VtKey("domain", hostname)
       IN  \E aw \in Answers(kw, WhoisAnswers), av \in Answers(kv, VtAnswers) :
             LET f == DomainFindings(hostname, LookupValue(kw, aw), LookupValue(kv, av))
                 ran == {k \in {kw, kv} : k \notin DOMAIN cache}
             IN  /\ findings' = findings \o f.findings
                 /\ scores' = scores + f.scores
                 /\ vt_key_missing' = (vt_key_missing \/ (kv \in ran /\ FlagsKeyMissing(av)))
                 /\ cache' = (kw :> LookupValue(kw, aw)) @@ (kv :> LookupValue(kv, av)) @@ cache
                 /\ service' = (kw :> aw) @@ (kv :> av) @@ service
                 /\ executed' = executed \cup {[key |-> k, status |-> IF k = kw THEN aw.status ELSE av.status] : k \in ran}
                 /\ looked' = looked \cup {kw, kv}
    /\ pending' = Tail(pending)
    /\ UNCHANGED quizVars
    /\ UNCHANGED <<pc, msg, partIdx, results, warning, hashOrder, unique_hostnames, unique_hashes,
                   base, prev, last>>

\* lines 518-521: the findings and scores of the hostnames join the urls
\* category; then the loop of get_file_reputation_findings starts
MergeDomains ==
    /\ pc = "domains"
    /\ pending = <<>>
    /\ results' = IF unique_hostnames # {} THEN Extend(results, "urls", findings, scores) ELSE results
    /\ pending' = SetOrder(unique_hashes, hashOrder)
    /\ findings' = <<>>
    /\ scores' = 0
    /\ pc' = "files"
    /\ UNCHANGED quizVars
    /\ UNCHANGED <<msg, partIdx, vt_key_missing, warning, cache, service, hashOrder, unique_hostnames,
                   unique_hashes, executed, looked, base, prev, last>>

\* lines 371-389: one round of the loop of get_file_reputation_findings
EnrichFile ==
    /\ pc = "files"
    /\ pending # <<>>
    /\ LET file_hash == Head(pending)
           kv == VtKey("file", file_hash)
       IN  \E av \in Answers(kv, VtAnswers) :
             LET f == FileFindings(file_hash, LookupValue(kv, av))
                 ran == {k \in {kv} : k \notin DOMAIN cache}
             IN  /\ findings' = findings \o f.findings
                 /\ scores' = scores + f.scores
                 /\ vt_key_missing' = (vt_key_missing \/ (kv \in ran /\ FlagsKeyMissing(av)))
                 /\ cache' = (kv :> LookupValue(kv, av)) @@ cache
                 /\ service' = (kv :> av) @@ service
                 /\ executed' = executed \cup {[key |-> k, status |-> av.status] : k \in ran}
                 /\ looked' = looked \cup {kv}
    /\ pending' = Tail(pending)
    /\ UNCHANGED quizVars
    /\ UNCHANGED <<pc, msg, partIdx, results, warning, hashOrder, unique_hostnames, unique_hashes,
                   base, prev, last>>

\* lines 523-526: the findings and scores of the hashes join the attachments
MergeFiles ==
    /\ pc = "files"
    /\ pending = <<>>
    /\ results' = IF unique_hashes # {} THEN Extend(results, "attachments", findings, scores) ELSE results
    /\ findings' = <<>>
    /\ scores' = 0
    /\ pc' = "summary"
    /\ UNCHANGED quizVars
    /\ UNCHANGED <<msg, partIdx, vt_key_missing, warning, cache, service, hashOrder, unique_hostnames,
                   unique_hashes, pending, executed, looked, base, prev, last>>

\* line 528
CalculateSummary ==
    /\ pc = "summary"
    /\ results' = calculate_summary(results)
    /\ pc' = "display"
    /\ UNCHANGED quizVars
    /\ UNCHANGED <<msg, partIdx, vt_key_missing, warning, cache, service, hashOrder, unique_hostnames,
                   unique_hashes, pending, findings, scores, executed, looked, base, prev, last>>

\* lines 529-532: the result is displayed, and the notice if the flag is set
Display ==
    /\ pc = "display"
    /\ warning' = vt_key_missing
    /\ prev' = [done |-> TRUE, msg |-> msg, results |-> results]
    /\ pc' = "shown"
    /\ UNCHANGED quizVars
    /\ UNCHANGED <<msg, partIdx, results, vt_key_missing, cache, service, hashOrder, unique_hostnames,
                   unique_hashes, pending, findings, scores, executed, looked, base, last>>

Next ==
    \/ Upload
    \/ Rerun
    \/ Restart
    \/ AnalyzeHeaders
    \/ WalkPart
    \/ ExtractKeys
    \/ EnrichDomain
    \/ MergeDomains
    \/ EnrichFile
    \/ MergeFiles
    \/ CalculateSummary
    \/ Display

\* the analysis page: uploads, runs of main(), reruns and restarts
Spec == InitIdle /\ [][Next]_vars

\* one call analyze_url(url, results) on the results of the run so far
UrlCall ==
    /\ last.n < MaxUrlCalls
    /\ \E url \in Urls :
         /\ results' = analyze_url(url, results)
         /\ last' = [op |-> "analyze_url", arg |-> url, before |-> results, n |-> last.n + 1]
    /\ UNCHANGED <<runVars, quizVars>>

NextUrl == UrlCall

\* any sequence of analyze_url calls on fresh results
SpecUrl == InitIdle /\ [][NextUrl]_vars

\* one call analyze_attachment(part, results) on the results of the run so far
AttCall ==
    /\ last.n < MaxAttCalls
    /\ \E part \in AttachmentParts :
         /\ results' = analyze_attachment(part, results)
         /\ last' = [op |-> "analyze_attachment", arg |-> part, before |-> results, n |-> last.n + 1]
    /\ UNCHANGED <<runVars, quizVars>>

NextAtt == AttCall

\* any sequence of analyze_attachment calls on fresh results
SpecAtt == InitIdle /\ [][NextAtt]_vars

\* lines 483-489: analyze_headers(msg, results) on the fresh results of a run
HdrCall ==
    /\ last.op = "none"
    /\ \E h \in HeaderInputs :
         /\ results' = analyze_headers(h, NewResults)
         /\ last' = [op |-> "analyze_headers", arg |-> h, before |-> NewResults, n |-> 1]
    /\ UNCHANGED <<runVars, quizVars>>

NextHdr == HdrCall

\* the header analysis of a run, for any headers
SpecHdr == InitIdle /\ [][NextHdr]_vars

\* line 528: calculate_summary(results) on the results the analyzers left
SumCall ==
    /\ last.op = "none"
    /\ \E r \in SummaryInputs :
         /\ results' = calculate_summary(r)
         /\ last' = [op |-> "calculate_summary", arg |-> <<>>, before |-> r, n |-> 1]
    /\ UNCHANGED <<runVars, quizVars>>

NextSum == SumCall

\* the summary of a run, for any results of the analyzers
SpecSum == InitIdle /\ [][NextSum]_vars

\* lines 518-521 for a message with one hostname: its two lookups, the
\* findings of get_domain_reputation_findings and their merge into urls
RepDomain ==
    /\ last.op = "none"
    /\ \E hostname \in {HostPlain, HostPuny}, aw \in RepWhoisAnswers, av \in RepVtAnswers :
         LET b == RepBase(hostname)
             f == DomainFindings(hostname, Returned(aw), Returned(av))
         IN  /\ hostname \in UniqueHostnames(b)
             /\ results' = Extend(b, "urls", f.findings, f.scores)
             /\ last' = [op |-> "get_domain_reputation_findings",
                         arg |-> [key |-> hostname, whois |-> aw, vt |-> av], before |-> b, n |-> 1]
    /\ UNCHANGED <<runVars, quizVars>>

\* lines 523-526 for a message with one attachment: the lookup of its hash,
\* the findings of get_file_reputation_findings and their merge into
\* attachments
RepFile ==
    /\ last.op = "none"
    /\ \E hostname \in {HostPlain, HostPuny}, av \in RepVtAnswers :
         LET b == RepBase(hostname)
         IN  \E file_hash \in UniqueHashes(b) :
               LET f == FileFindings(file_hash, Returned(av))
               IN  /\ results' = Extend(b, "attachments", f.findings, f.scores)
                   /\ last' = [op |-> "get_file_reputation_findings",
                               arg |-> [key |-> file_hash, whois |-> None, vt |-> av], before |-> b, n |-> 1]
    /\ UNCHANGED <<runVars, quizVars>>

NextRep == RepDomain \/ RepFile

\* the enrichment of a run with one key, for any answers of the services
SpecRep == InitIdle /\ [][NextRep]_vars

\* POST /submit_answer with any request, on any database
PostSubmitAnswer ==
    /\ last.op = "none"
    /\ \E db \in Databases, answer_request \in AnswerRequests :
         /\ response' = submit_answer(db, answer_request)
         /\ last' = [op |-> "submit_answer", arg |-> [db |-> db, request |-> answer_request],
                     before |-> NewResults, n |-> 1]
    /\ UNCHANGED <<runVars, results, session_state, elapsed_time>>

\* GET /questions on any database
GetQuestions ==
    /\ last.op = "none"
    /\ \E db \in Databases :
         /\ response' = get_all_questions(db)
         /\ last' = [op |-> "get_all_questions", arg |-> [db |-> db, request |-> <<>>],
                     before |-> NewResults, n |-> 1]
    /\ UNCHANGED <<runVars, results, session_state, elapsed_time>>

NextApi == PostSubmitAnswer \/ GetQuestions

\* one request to the API server
SpecApi == InitIdle /\ [][NextApi]_vars

\* a game is on: started and not finished
GameOn == SessionGet(session_state, "game_started", FALSE) /\ ~SessionGet(session_state, "game_finished", FALSE)

\* the current question is not answered yet
Unanswered == ~SessionGet(session_state, "answer_submitted", FALSE)

\* current_question['id']
CurrentQuestionId == session_state.questions[session_state.current_question_index + 1].id

\* lines 94-96: the first run of the page in a session loads the questions
LoadPage ==
    /\ "all_questions" \notin DOMAIN session_state
    /\ \E reply \in QuestionsReplies :
         session_state' = SessionSet(session_state, [all_questions |-> load_questions_from_api(reply)])
    /\ UNCHANGED <<runVars, results, last, elapsed_time, response>>

\* lines 160-161: the start button on the start screen
StartGame ==
    /\ "all_questions" \in DOMAIN session_state
    /\ ~SessionGet(session_state, "game_started", FALSE)
    /\ \E shuffled \in Shuffles(session_state.all_questions) :
         session_state' = initialize_game(session_state, shuffled)
    /\ elapsed_time' = 0
    /\ UNCHANGED <<runVars, results, last, response>>

\* a second passes while the question waits for its answer; from the limit
\* on every run reads remaining_time = 0
Tick ==
    /\ GameOn /\ Unanswered
    /\ elapsed_time < TIME_LIMIT_SECONDS
    /\ elapsed_time' = elapsed_time + 1
    /\ UNCHANGED <<runVars, results, last, session_state, response>>

\* the player picks an option of the radio; the script runs
SelectOption ==
    /\ GameOn /\ Unanswered
    /\ \E radio \in {Phishing, Normal} :
         /\ radio # session_state.user_choice
         /\ \E reply \in AnswerReplies(CurrentQuestionId, radio) :
              session_state' = QuestionRun(session_state, elapsed_time, radio, FALSE, reply)
    /\ UNCHANGED <<runVars, results, last, elapsed_time, response>>

\* the player clicks the submit button; the script runs
SubmitButton ==
    /\ GameOn /\ Unanswered
    /\ \E reply \in AnswerReplies(CurrentQuestionId, session_state.user_choice) :
         session_state' = QuestionRun(session_state, elapsed_time, session_state.user_choice, TRUE, reply)
    /\ UNCHANGED <<runVars, results, last, elapsed_time, response>>

\* lines 242-245: the script runs again after its sleep of half a second
TimerRerun ==
    /\ GameOn /\ Unanswered
    /\ \E reply \in AnswerReplies(CurrentQuestionId, session_state.user_choice) :
         session_state' = QuestionRun(session_state, elapsed_time, session_state.user_choice, FALSE, reply)
    /\ UNCHANGED <<runVars, results, last, elapsed_time, response>>

\* the player clicks the button under the explanation
NextButton ==
    /\ GameOn /\ ~Unanswered
    /\ session_state' = AfterNextButton(session_state)
    /\ elapsed_time' = IF session_state'.game_finished THEN elapsed_time ELSE 0
    /\ UNCHANGED <<runVars, results, last, response>>

\* lines 328-337: the restart button on the result screen
RestartGame ==
    /\ SessionGet(session_state, "game_finished", FALSE)
    /\ session_state' = SessionDel(session_state, RestartKeys)
    /\ UNCHANGED <<runVars, results, last, elapsed_time, response>>

NextQuiz ==
    \/ LoadPage \/ StartGame \/ Tick \/ SelectOption \/ SubmitButton \/ TimerRerun
    \/ NextButton \/ RestartGame

\* a session of the quiz page
SpecQuiz == InitIdle /\ [][NextQuiz]_vars

-----------------------------------------------------------------------------
(* Claims about analyze_url *)

\* the hostnames that have a "URL domain" finding in res
ReportedHosts(res) ==
    {DomainOf(res.urls[i].value) : i \in {j \in 1..Len(res.urls) : Contains(res.urls[j].value, "Domain: ")}}

\* C2: within one run every hostname has at most one "URL domain" finding in
\* the urls category, however many analyze_url calls name it.
C2_OneFindingPerHostname ==
    \A i, j \in 1..Len(results.urls) :
        (/\ i < j
         /\ results.urls[i].item = <<"URL domain">>
         /\ results.urls[j].item = <<"URL domain">>)
        => DomainOf(results.urls[i].value) # DomainOf(results.urls[j].value)

\* the weight of each issue, as the specification tabulates it
IssueWeight(issue) ==
    CASE issue = IssueIP -> 40
      [] issue = IssueNoHttps -> 10
      [] issue = IssuePunycode -> 30
      [] issue = IssueTld -> 20
      [] issue = IssueEmail -> 25
      [] issue = IssuePath -> 15
      [] issue = IssueParam -> 10
      [] OTHER -> 0

AllIssues == {IssueIP, IssueNoHttps, IssuePunycode, IssueTld, IssueEmail, IssuePath, IssueParam}

\* the issues whose condition holds of the parsed url
TriggeredIssues(u) ==
    {issue \in AllIssues :
        \/ issue = IssueIP /\ IsIPv4Literal(u.hostname)
        \/ issue = IssueNoHttps /\ u.scheme # <<"https">>
        \/ issue = IssuePunycode /\ StartsWith(u.hostname, <<"xn--">>)
        \/ issue = IssueTld /\ \E i \in 1..Len(suspicious_tlds) : EndsWith(u.hostname, <<".", suspicious_tlds[i]>>)
        \/ issue = IssueEmail /\ HasEmailPattern(u.query)
        \/ issue = IssuePath /\ PathSegments(u.path) > 3
        \/ issue = IssueParam /\ \E i \in 1..Len(suspicious_params) : HasParamAssign(u.query, suspicious_params[i])}

RECURSIVE SumWeights(_)
SumWeights(S) ==
    IF S = {} THEN 0
    ELSE LET x == CHOOSE y \in S : TRUE IN IssueWeight(x) + SumWeights(S \ {x})

\* the issue tokens a finding's value lists, with their multiplicity
ListedIssues(value) == {i \in 1..Len(value) : value[i] \in AllIssues}

\* the local risk total a finding's listed issues add up to
ListedTotal(value) == SumSeq([k \in 1..Len(value) |-> IssueWeight(value[k])])

\* C7: a call on a hostname not yet reported appends one finding that lists
\* exactly the triggered issues and adds the sum of their weights to the urls
\* score; http://192.168.1.1/a/b/c/d?redirect=1 adds 75.
C7_UrlRiskIsSumOfWeights ==
    (/\ last.op = "analyze_url"
     /\ UrlParse(last.arg).hostname # <<>>
     /\ UrlParse(last.arg).hostname \notin ReportedHosts(last.before))
    => LET u == UrlParse(last.arg)
           f == results.urls[Len(results.urls)]
       IN  /\ Len(results.urls) = Len(last.before.urls) + 1
           /\ SubSeq(results.urls, 1, Len(last.before.urls)) = last.before.urls
           /\ f.item = <<"URL domain">>
           /\ DomainOf(f.value) = u.hostname
           /\ {f.value[i] : i \in ListedIssues(f.value)} = TriggeredIssues(u)
           /\ Cardinality(ListedIssues(f.value)) = Cardinality(TriggeredIssues(u))
           /\ results.riskScores.urls = last.before.riskScores.urls + SumWeights(TriggeredIssues(u))
           /\ (last.arg = UrlScenarioC => results.riskScores.urls - last.before.riskScores.urls = 75)

\* C7 witness: scenario C was analysed on a new hostname and added 75
C7_Witness ==
    /\ last.op = "analyze_url"
    /\ last.arg = UrlScenarioC
    /\ HostIP \notin ReportedHosts(last.before)
    /\ results.riskScores.urls = last.before.riskScores.urls + 75

\* C8: the status of every URL-domain finding follows from its local risk
\* total alone: danger iff total >= 40, warn iff 15 <= total < 40, safe iff
\* total < 15.
C8_UrlStatusByTotal ==
    \A i \in 1..Len(results.urls) :
        results.urls[i].item = <<"URL domain">> =>
            LET total == ListedTotal(results.urls[i].value)
                st    == results.urls[i].status
            IN  /\ st \in {"danger", "warn", "safe"}
                /\ (st = "danger" <=> total >= 40)
                /\ (st = "warn" <=> (total >= 15 /\ total < 40))
                /\ (st = "safe" <=> total < 15)

\* C8 witness: a finding with total 10 is safe and one with total exactly 40
\* is danger
C8_Witness ==
    /\ Len(results.urls) = 2
    /\ ListedTotal(results.urls[1].value) = 10 /\ results.urls[1].status = "safe"
    /\ ListedTotal(results.urls[2].value) = 40 /\ results.urls[2].status = "danger"

-----------------------------------------------------------------------------
(* Claims about analyze_attachment *)

\* the findings the last call appended to the attachments category
NewAttFindings ==
    SubSeq(results.attachments, Len(last.before.attachments) + 1, Len(results.attachments))

\* whether the last call emitted the signature-mismatch finding
MismatchEmitted ==
    \E i \in 1..Len(NewAttFindings) : NewAttFindings[i].item = <<"MIME type mismatch">>

\* the last file name ends (case-insensitively) with a blacklisted extension
Blacklisted(filename) ==
    /\ Len(filename) >= 2
    /\ filename[Len(filename) - 1] = "."
    /\ Lower(filename[Len(filename)]) \in {"exe", "vbs", "scr", "bat", "com", "pif", "js", "cmd", "jar"}

\* the file name has more than one dot
MoreThanOneDot(filename) == Cardinality({i \in 1..Len(filename) : filename[i] = "."}) > 1

\* C9: the extension checks add 30 for a blacklisted extension, 20 when only
\* the double-extension pattern holds and 0 otherwise (max, not sum); a
\* signature mismatch adds 40 on top; invoice.pdf.exe with an MZ payload
\* declared application/pdf adds 70 and yields both findings.
C9_AttachmentRiskMaxNotSum ==
    (last.op = "analyze_attachment" /\ last.arg.filename # <<>>)
    => LET fn    == last.arg.filename
           delta == results.riskScores.attachments - last.before.riskScores.attachments
           ext   == IF Blacklisted(fn) THEN 30 ELSE IF MoreThanOneDot(fn) THEN 20 ELSE 0
       IN  /\ SubSeq(results.attachments, 1, Len(last.before.attachments)) = last.before.attachments
           /\ Len(NewAttFindings) >= 1
           /\ NewAttFindings[1].item = <<"attachment">>
           /\ delta = ext + (IF MismatchEmitted THEN 40 ELSE 0)
           /\ (last.arg = PartScenarioB =>
                 /\ delta = 70
                 /\ MismatchEmitted
                 /\ NewAttFindings[1].status = "danger"
                 /\ Contains(NewAttFindings[1].value, " (executable suspected)"))

\* C9 witness: scenario B was analysed and added 70
C9_Witness ==
    /\ last.op = "analyze_attachment"
    /\ last.arg = PartScenarioB
    /\ results.riskScores.attachments = last.before.riskScores.attachments + 70

\* C10: the combined attachment finding is danger whenever the extension is
\* blacklisted (also with a double extension), warn when only the
\* double-extension pattern holds, info when neither holds.
C10_AttachmentStatusNeverDowngraded ==
    (last.op = "analyze_attachment" /\ last.arg.filename # <<>>)
    => LET fn == last.arg.filename
           st == NewAttFindings[1].status
       IN  /\ (Blacklisted(fn) => st = "danger")
           /\ (~Blacklisted(fn) /\ MoreThanOneDot(fn) => st = "warn")
           /\ (~Blacklisted(fn) /\ ~MoreThanOneDot(fn) => st = "info")

\* C10 witness: a blacklisted name with two dots was analysed and stayed danger
C10_Witness ==
    /\ last.op = "analyze_attachment"
    /\ Blacklisted(last.arg.filename)
    /\ MoreThanOneDot(last.arg.filename)
    /\ NewAttFindings[1].status = "danger"

-----------------------------------------------------------------------------
(* Claims about a run of main() *)

\* the run has computed its summary
Summarised == pc \in {"display", "shown"}

CategorySum ==
    results.riskScores.header + results.riskScores.body
    + results.riskScores.attachments + results.riskScores.urls

\* C1: the totalScore of the summary is min(100, header + body + attachments
\* + urls) over the final category scores, enrichment included, and lies in
\* 0..100.
C1_TotalScoreClamped ==
    Summarised =>
        /\ results.summary.totalScore = (IF CategorySum > 100 THEN 100 ELSE CategorySum)
        /\ results.summary.totalScore >= 0
        /\ results.summary.totalScore <= 100

\* C1 witness: a displayed run whose categories, with an enrichment score
\* among them, add up to more than 100 and whose total is 100
C1_Witness ==
    /\ pc = "shown"
    /\ results.riskScores.urls > base.riskScores.urls
    /\ CategorySum > 100
    /\ results.summary.totalScore = 100

\* C3 as claimed: a message without headers and parts gives four empty
\* finding lists, four zero scores and the level safe.
C3_EmptyMessageAllEmpty ==
    (Summarised /\ msg = NoMessage) =>
        /\ results.header = <<>>
        /\ results.body = <<>>
        /\ results.attachments = <<>>
        /\ results.urls = <<>>
        /\ results.riskScores = [header |-> 0, body |-> 0, attachments |-> 0, urls |-> 0]
        /\ results.summary.level = "safe"

\* C3 as amended: a message without headers and parts gives empty body,
\* attachments and urls lists, a header list of exactly seven info findings
\* (From, To, Subject, X-Mailer and "no result" for SPF, DKIM, DMARC), four
\* zero scores, total 0 and the level safe.
C3_EmptyMessageOnlyInfoHeaders ==
    (Summarised /\ msg = NoMessage) =>
        /\ Len(results.header) = 7
        /\ \A i \in 1..Len(results.header) : results.header[i].status = "info"
        /\ \A i \in 5..Len(results.header) : results.header[i].value = <<"no result">>
        /\ results.body = <<>>
        /\ results.attachments = <<>>
        /\ results.urls = <<>>
        /\ results.riskScores = [header |-> 0, body |-> 0, attachments |-> 0, urls |-> 0]
        /\ results.summary.totalScore = 0
        /\ results.summary.level = "safe"

\* C3 witness: the run on the message without content was displayed
C3_Witness == pc = "shown" /\ msg = NoMessage /\ results.summary.level = "safe"

\* every lookup of the hostname failed: no 200 answer from either service
HostLookupsFailed(h) ==
    /\ WhoisKey(h) \in DOMAIN service /\ service[WhoisKey(h)].status # 200
    /\ VtKey("domain", h) \in DOMAIN service /\ service[VtKey("domain", h)].status # 200

\* the lookup of the file hash failed
HashLookupFailed(x) ==
    VtKey("file", x) \in DOMAIN service /\ service[VtKey("file", x)].status # 200

\* what the answers for a hostname are to add to the urls score
ExpectedHostScore(h) ==
    LET w == service[WhoisKey(h)]
        v == service[VtKey("domain", h)]
    IN  (IF w.status = 200 /\ w.days >= 0 /\ w.days < 30 THEN 30 ELSE 0)
        + (IF v.status = 200 /\ v.positives > 0
           THEN (IF v.positives * 10 > 50 THEN 50 ELSE v.positives * 10) ELSE 0)

\* what the answer for a file hash is to add to the attachments score
ExpectedHashScore(x) ==
    LET v == service[VtKey("file", x)]
    IN  IF v.status = 200 /\ v.positives > 0
        THEN (IF v.positives * 10 > 50 THEN 50 ELSE v.positives * 10) ELSE 0

RECURSIVE SumHostScores(_)
SumHostScores(S) ==
    IF S = {} THEN 0
    ELSE LET h == CHOOSE y \in S : TRUE IN ExpectedHostScore(h) + SumHostScores(S \ {h})

RECURSIVE SumHashScores(_)
SumHashScores(S) ==
    IF S = {} THEN 0
    ELSE LET x == CHOOSE y \in S : TRUE IN ExpectedHashScore(x) + SumHashScores(S \ {x})

\* the findings enrichment appended to a category
Appended(cat) == SubSeq(results[cat], Len(base[cat]) + 1, Len(results[cat]))

\* C4: a key whose every lookup failed adds no finding and no score; the
\* analyzers' findings stay as they were; the keys after it are still looked
\* up; and the summary is computed.
C4_FailedLookupsAddNothing ==
    /\ pc \in {"files", "summary", "display", "shown"} =>
         /\ SubSeq(results.urls, 1, Len(base.urls)) = base.urls
         /\ \A h \in unique_hostnames :
              /\ {WhoisKey(h), VtKey("domain", h)} \subseteq looked
              /\ HostLookupsFailed(h) =>
                   \A i \in 1..Len(Appended("urls")) : ~EndsWith(Appended("urls")[i].item, h)
         /\ results.riskScores.urls = base.riskScores.urls + SumHostScores(unique_hostnames)
         /\ (\A h \in unique_hostnames : HostLookupsFailed(h)) =>
              results.urls = base.urls /\ results.riskScores.urls = base.riskScores.urls
    /\ pc \in {"summary", "display", "shown"} =>
         /\ SubSeq(results.attachments, 1, Len(base.attachments)) = base.attachments
         /\ \A x \in unique_hashes :
              /\ VtKey("file", x) \in looked
              /\ HashLookupFailed(x) =>
                   \A i \in 1..Len(Appended("attachments")) : ~IsSubText(x, Appended("attachments")[i].item)
         /\ results.riskScores.attachments
              = base.riskScores.attachments + SumHashScores(unique_hashes)
    /\ Summarised => results.summary # NoSummary /\ results.summary.totalScore >= 0

\* C4 witness: both lookups of the hostname iterated first failed, the second
\* hostname was still looked up and got its findings, the file lookup failed,
\* and the run was displayed
C4_Witness ==
    /\ pc = "shown"
    /\ Cardinality(unique_hostnames) = 2
    /\ unique_hashes # {}
    /\ HostLookupsFailed(hashOrder[1])
    /\ ~HostLookupsFailed(hashOrder[2])
    /\ \A x \in unique_hashes : HashLookupFailed(x)
    /\ Len(results.urls) > Len(base.urls)
    /\ results.attachments = base.attachments

\* C5: a lookup that failed in this run because the service is unavailable
\* (503) is surfaced as the notice when the summary is displayed; and the
\* notice is not shown when no lookup of the run failed.
C5_UnavailableSurfacedAsNotice ==
    pc = "shown" =>
        /\ (\E e \in executed : e.status = 503) => warning
        /\ (\A e \in executed : e.status = 200) => ~warning

\* C6: a run on the bytes of the previous run, with the same answers from the
\* lookups, ends with the result of the previous run.
C6_SameInputSameResult ==
    (pc = "display" /\ prev.done /\ prev.msg = msg) => results = prev.results

-----------------------------------------------------------------------------
(* Claims about analyze_headers *)

\* the address of a header value: the text inside <...>, else the raw value
AddressOf(v) ==
    IF \E i \in 1..Len(v) : v[i] = "<"
    THEN LET i == CHOOSE k \in 1..Len(v) : v[k] = "<" IN <<v[i + 1]>>
    ELSE v

\* the header findings that carry the item
HeaderFindings(item) == {i \in 1..Len(results.header) : results.header[i].item = item}

\* the header score of the same message without the named headers
ScoreWithout(h) == analyze_headers(h, NewResults).riskScores.header

\* C11: From and Return-Path both present with different addresses give
\* exactly one warn mismatch finding and +15; From and Reply-To likewise and
\* independently (both: +30); equal or absent addresses add nothing.
C11_AddressMismatches ==
    last.op = "analyze_headers" =>
        LET h    == last.arg
            from == AddressOf(h.From)
            rp   == from # <<>> /\ h.ReturnPath # <<>> /\ from # AddressOf(h.ReturnPath)
            rt   == from # <<>> /\ h.ReplyTo # <<>> /\ from # AddressOf(h.ReplyTo)
            nrp  == HeaderFindings(<<"From/Return-Path mismatch">>)
            nrt  == HeaderFindings(<<"From/Reply-To mismatch">>)
        IN  /\ Cardinality(nrp) = (IF rp THEN 1 ELSE 0)
            /\ Cardinality(nrt) = (IF rt THEN 1 ELSE 0)
            /\ \A i \in nrp \cup nrt : results.header[i].status = "warn"
            /\ results.riskScores.header
                 = ScoreWithout([h EXCEPT !.ReturnPath = <<>>, !.ReplyTo = <<>>])
                   + (IF rp THEN 15 ELSE 0) + (IF rt THEN 15 ELSE 0)

\* C11 witness: From "Alice <a@x.com>" with Return-Path <b@y.com> and
\* Reply-To "Bob <c@z.com>": two warn findings and +30
C11_Witness ==
    /\ last.op = "analyze_headers"
    /\ last.arg.From = <<"Alice ", "<", "a@x.com", ">">>
    /\ last.arg.ReturnPath = <<"<", "b@y.com", ">">>
    /\ last.arg.ReplyTo = <<"Bob ", "<", "c@z.com", ">">>
    /\ last.arg.Received = <<>> /\ last.arg.AuthResults = <<>>
    /\ results.riskScores.header = 30
    /\ Cardinality(HeaderFindings(<<"From/Return-Path mismatch">>)) = 1
    /\ Cardinality(HeaderFindings(<<"From/Reply-To mismatch">>)) = 1

\* the tokens that follow "<name>=" in the value, name spelled as given
PairTokens(auth_results, name) ==
    {auth_results[i + 2] : i \in {k \in 1..(Len(auth_results) - 2) :
                                    auth_results[k] = name /\ auth_results[k + 1] = "="}}

\* the token lowercased, as the claims spell the results
LowerResult(tok) == IF tok = "PASS" THEN "pass" ELSE tok

\* the item of the finding of a mechanism
AuthItem(mech) ==
    <<(CASE mech = "spf" -> "SPF" [] mech = "dkim" -> "DKIM" [] OTHER -> "DMARC"), " authentication">>

\* what C12 expects of a mechanism: danger, safe or info
ExpectedAuthStatus(auth_results, mech) ==
    LET toks == PairTokens(auth_results, mech)
    IN  IF toks = {} THEN "info"
        ELSE IF \A t \in toks : LowerResult(t) = "pass" THEN "safe" ELSE "danger"

Mechanisms == {"spf", "dkim", "dmarc"}

\* C12: each of spf, dkim, dmarc gets exactly one finding: danger and +20
\* when its pair is found with a token other than pass, safe and +0 when the
\* token is pass, info and +0 when no pair is found; the three add up.
C12_AuthResultsScoredIndependently ==
    last.op = "analyze_headers" =>
        LET h == last.arg
            failing == {m \in Mechanisms : ExpectedAuthStatus(h.AuthResults, m) = "danger"}
        IN  /\ \A m \in Mechanisms :
                 /\ Cardinality(HeaderFindings(AuthItem(m))) = 1
                 /\ \A i \in HeaderFindings(AuthItem(m)) :
                      results.header[i].status = ExpectedAuthStatus(h.AuthResults, m)
            /\ results.riskScores.header
                 = ScoreWithout([h EXCEPT !.AuthResults = <<>>]) + 20 * Cardinality(failing)

\* C12 witness: spf=fail, dkim=fail and dmarc=none on otherwise clean headers
\* add 60
C12_Witness ==
    /\ last.op = "analyze_headers"
    /\ last.arg.AuthResults = AuthLine(<<"spf", "=", "fail">>, <<"dkim", "=", "fail">>, <<"dmarc", "=", "none">>)
    /\ last.arg.From = <<>> /\ last.arg.Received = <<>>
    /\ results.riskScores.header = 60
    /\ \A m \in Mechanisms : \A i \in HeaderFindings(AuthItem(m)) : results.header[i].status = "danger"

\* the spellings of a mechanism name the inputs use
Spellings(mech) ==
    CASE mech = "spf" -> {"spf", "SPF"}
      [] mech = "dkim" -> {"dkim", "Dkim"}
      [] OTHER -> {"dmarc", "DMARC"}

\* C13: the mechanism name is matched case-insensitively: SPF=fail, Dkim=fail
\* and DMARC=none are danger like their lowercase forms, and the token is
\* compared after lowercasing (spf=PASS is safe).
C13_MechanismCaseInsensitive ==
    last.op = "analyze_headers" =>
        \A m \in Mechanisms :
            LET toks == UNION {PairTokens(last.arg.AuthResults, n) : n \in Spellings(m)}
            IN  \A i \in HeaderFindings(AuthItem(m)) :
                    /\ (toks # {} /\ \A t \in toks : LowerResult(t) = "pass")
                         => results.header[i].status = "safe"
                    /\ (\E t \in toks : LowerResult(t) # "pass")
                         => results.header[i].status = "danger"

-----------------------------------------------------------------------------
(* Claims about the walk over the parts *)

\* the analyzers of the run have finished
Walked == pc \in {"domains", "files", "summary", "display", "shown"}

\* the positions of the text/html leaf parts that are no attachments
HtmlParts ==
    {i \in 1..Len(msg.parts) : msg.parts[i].disposition # "attachment" /\ msg.parts[i].ctype = <<"text/html">>}

\* C14: the body findings and score, and the URL-domain findings, are those of
\* the first text/html leaf part alone; without a text/html part the body
\* category is empty with score 0.
C14_OnlyFirstHtmlPart ==
    Walked =>
        IF HtmlParts = {}
        THEN base.body = <<>> /\ base.riskScores.body = 0
        ELSE LET first == CHOOSE i \in HtmlParts : \A j \in HtmlParts : i <= j
                 alone == analyze_html_body(msg.parts[first].html, NewResults)
             IN  /\ base.body = alone.body
                 /\ base.riskScores.body = alone.riskScores.body
                 /\ base.urls = alone.urls

-----------------------------------------------------------------------------
(* Claims about calculate_summary *)

\* C15: exactly one level per totalScore: high iff >= 70, caution iff 40..69,
\* low iff 10..39, safe iff < 10; and calculate_summary changes nothing in
\* the result except the summary.
C15_LevelByTotalScore ==
    last.op = "calculate_summary" =>
        LET t == results.summary.totalScore
            l == results.summary.level
        IN  /\ l \in {"high", "caution", "low", "safe"}
            /\ (l = "high" <=> t >= 70)
            /\ (l = "caution" <=> (t >= 40 /\ t <= 69))
            /\ (l = "low" <=> (t >= 10 /\ t <= 39))
            /\ (l = "safe" <=> t < 10)
            /\ results.header = last.before.header
            /\ results.body = last.before.body
            /\ results.attachments = last.before.attachments
            /\ results.urls = last.before.urls
            /\ results.riskScores = last.before.riskScores
            /\ last.before.summary = NoSummary

\* C15 witness: a result with findings in three categories and total exactly
\* 70 is level high
C15_Witness ==
    /\ last.op = "calculate_summary"
    /\ results.summary.totalScore = 70
    /\ results.summary.level = "high"
    /\ results.riskScores = [header |-> 10, body |-> 0, attachments |-> 20, urls |-> 40]

-----------------------------------------------------------------------------
(* Claims about the collection of the lookup keys *)

\* a hostname written as digits and dots only
DigitsAndDots(hostname) ==
    hostname # <<>> /\ \A i \in 1..Len(hostname) : hostname[i] \in Digits \cup {"."}

\* the positions of the URL-domain findings of the analyzers
UrlDomainFindings == {i \in 1..Len(base.urls) : base.urls[i].item = <<"URL domain">>}

\* the hostname a URL-domain finding names
FindingHost(i) == DomainOf(base.urls[i].value)

RECURSIVE SumListedTotals(_)
SumListedTotals(I) ==
    IF I = {} THEN 0
    ELSE LET i == CHOOSE j \in I : TRUE
         IN  ListedTotal(base.urls[i].value) + SumListedTotals(I \ {i})

\* the keys of the domain lookups this process has made or cached
DomainKeys == {k \in looked \cup DOMAIN cache \cup DOMAIN service : k.endpoint # "file"}

\* C16: an IPv4-literal hostname is never passed to a reputation lookup, yet
\* it has its URL-domain finding with the IP issue and its +40 in the urls
\* score; every non-IP hostname with a URL-domain finding is looked up.
C16_IpLiteralNotLookedUp ==
    /\ \A k \in DomainKeys : ~DigitsAndDots(k.resource)
    /\ Walked =>
         /\ \A i \in UrlDomainFindings :
              DigitsAndDots(FindingHost(i)) =>
                  /\ \E j \in ListedIssues(base.urls[i].value) : base.urls[i].value[j] = IssueIP
                  /\ ListedTotal(base.urls[i].value) >= 40
                  /\ base.urls[i].status = "danger"
         /\ base.riskScores.urls = SumListedTotals(UrlDomainFindings)
    /\ pc \in {"files", "summary", "display", "shown"} =>
         \A i \in UrlDomainFindings :
             ~DigitsAndDots(FindingHost(i)) =>
                 {WhoisKey(FindingHost(i)), VtKey("domain", FindingHost(i))} \subseteq looked

\* C16 witness: a displayed run with a finding for 192.168.1.1, which was not
\* looked up, and findings for two other hostnames, which were
C16_Witness ==
    /\ pc = "shown"
    /\ \E i \in UrlDomainFindings : FindingHost(i) = HostIP
    /\ \E i \in UrlDomainFindings : FindingHost(i) = HostPuny /\ VtKey("domain", HostPuny) \in looked
    /\ \E i \in UrlDomainFindings : FindingHost(i) = HostPlain /\ WhoisKey(HostPlain) \in looked
    /\ base.riskScores.urls >= 40
    /\ \A k \in looked : k.resource # HostIP

-----------------------------------------------------------------------------
(* Claims about the reputation findings *)

\* the last step enriched a hostname / a file hash
DomainEnriched == last.op = "get_domain_reputation_findings"

FileEnriched == last.op = "get_file_reputation_findings"

\* the findings the enrichment appended to the category
EnrichedFindings(cat) == SubSeq(results[cat], Len(last.before[cat]) + 1, Len(results[cat]))

\* the appended findings of the category with the item and the status
Emitted(cat, item, status) ==
    {i \in 1..Len(EnrichedFindings(cat)) :
        EnrichedFindings(cat)[i].item = item /\ EnrichedFindings(cat)[i].status = status}

\* the appended findings of the category with the item, whatever the status
EmittedAny(cat, item) ==
    {i \in 1..Len(EnrichedFindings(cat)) : EnrichedFindings(cat)[i].item = item}

\* what the category score gained
Gained(cat) == results.riskScores[cat] - last.before.riskScores[cat]

\* what a malware-reputation answer is to add: min(positives*10, 50)
CappedScore(answer) ==
    IF answer.status = 200 /\ answer.positives > 0
    THEN (IF answer.positives * 10 > 50 THEN 50 ELSE answer.positives * 10)
    ELSE 0

\* what a domain-age answer is to add
AgeScore(answer) ==
    IF answer.status = 200 /\ answer.days >= 0 /\ answer.days < 30 THEN 30 ELSE 0

\* C17: a domain-age result with an age below 30 days gives one danger finding
\* and +30 to urls; an age of 30 days or more one info finding and +0; an
\* absent result or negative days no domain-age finding and +0.
C17_DomainAgeFindings ==
    DomainEnriched =>
        LET h      == last.arg.key
            aw     == last.arg.whois
            known  == aw.status = 200 /\ aw.days >= 0
            trust  == EmittedAny("urls", <<"domain trust - ">> \o h)
            info   == EmittedAny("urls", <<"domain info - ">> \o h)
        IN  /\ (known /\ aw.days < 30) =>
                 /\ Cardinality(trust) = 1 /\ info = {}
                 /\ Emitted("urls", <<"domain trust - ">> \o h, "danger") = trust
            /\ (known /\ aw.days >= 30) =>
                 /\ Cardinality(info) = 1 /\ trust = {}
                 /\ Emitted("urls", <<"domain info - ">> \o h, "info") = info
            /\ ~known => trust = {} /\ info = {}
            /\ Gained("urls") = (IF known /\ aw.days < 30 THEN 30 ELSE 0) + CappedScore(last.arg.vt)

\* C17 witness: an age of 29 days added 30 with a danger finding, while the
\* malware-reputation lookup failed
C17_Witness ==
    /\ DomainEnriched
    /\ last.arg.whois.status = 200 /\ last.arg.whois.days = 29
    /\ last.arg.vt.status = 503
    /\ Gained("urls") = 30
    /\ Cardinality(Emitted("urls", <<"domain trust - ">> \o last.arg.key, "danger")) = 1

\* the category the enrichment of the last step belongs to, and the other
EnrichedCategory == IF DomainEnriched THEN "urls" ELSE "attachments"

OtherCategory == IF DomainEnriched THEN "attachments" ELSE "urls"

\* the item of the malware-reputation finding of the last step
VtItem ==
    IF DomainEnriched THEN <<"VirusTotal reputation - ">> \o last.arg.key
    ELSE <<"file reputation - ">> \o last.arg.key \o <<"...">>

\* what C18 states for positives > 0, for no report, and for the categories
VtPositiveAndAbsent ==
    LET av == last.arg.vt
        vt == EmittedAny(EnrichedCategory, VtItem)
    IN  /\ (av.status = 200 /\ av.positives > 0) =>
             /\ Cardinality(vt) = 1
             /\ Emitted(EnrichedCategory, VtItem, "danger") = vt
        /\ av.status # 200 => vt = {}
        /\ CappedScore(av) <= 50
        /\ Gained(EnrichedCategory) = CappedScore(av) + (IF DomainEnriched THEN AgeScore(last.arg.whois) ELSE 0)
        /\ results[OtherCategory] = last.before[OtherCategory]
        /\ Gained(OtherCategory) = 0
        /\ results.header = last.before.header /\ results.body = last.before.body
        /\ Gained("header") = 0 /\ Gained("body") = 0

\* C18 as claimed: positives > 0 gives one danger finding and min(positives*10,
\* 50); zero positives and an existing report one safe finding and +0; no
\* report nothing; hostname reports go to urls only, file reports to
\* attachments only.
C18_VtFindingsAsClaimed ==
    (DomainEnriched \/ FileEnriched) =>
        /\ VtPositiveAndAbsent
        /\ (last.arg.vt.status = 200 /\ last.arg.vt.positives = 0) =>
             /\ Cardinality(EmittedAny(EnrichedCategory, VtItem)) = 1
             /\ Emitted(EnrichedCategory, VtItem, "safe") = EmittedAny(EnrichedCategory, VtItem)

\* C18 as amended: as claimed, but the safe finding for zero positives is
\* emitted only when the report counts at least one engine (total > 0); a
\* report with zero positives and zero engines gives nothing.
C18_VtFindingsCappedAt50 ==
    (DomainEnriched \/ FileEnriched) =>
        /\ VtPositiveAndAbsent
        /\ (last.arg.vt.status = 200 /\ last.arg.vt.positives = 0 /\ last.arg.vt.total > 0) =>
             /\ Cardinality(EmittedAny(EnrichedCategory, VtItem)) = 1
             /\ Emitted(EnrichedCategory, VtItem, "safe") = EmittedAny(EnrichedCategory, VtItem)
        /\ (last.arg.vt.status = 200 /\ last.arg.vt.positives = 0 /\ last.arg.vt.total = 0) =>
             EmittedAny(EnrichedCategory, VtItem) = {}

\* C18 witness: a file report with 6 positives of 70 added 50, not 60, to
\* attachments with one danger finding
C18_Witness ==
    /\ FileEnriched
    /\ last.arg.vt.status = 200 /\ last.arg.vt.positives = 6
    /\ Gained("attachments") = 50
    /\ Cardinality(Emitted("attachments", VtItem, "danger")) = 1
    /\ results.urls = last.before.urls

-----------------------------------------------------------------------------
(* Claims about the accumulation of scores and findings *)

Categories == {"header", "body", "attachments", "urls"}

\* a step inside a run: every step but the start of a run on fresh results
\* and the restart of the process
StepOfRun == pc' \notin {"idle", "headers"}

\* C19: each category score starts at 0 in a run, is never negative and is
\* never decreased by a step of the run; categories are not clamped (the urls
\* score is the plain sum of its findings' totals and may exceed 100).
C19_ScoresNeverDecrease ==
    /\ [](/\ \A cat \in Categories : results.riskScores[cat] >= 0
          /\ pc = "headers" => \A cat \in Categories : results.riskScores[cat] = 0
          /\ Walked => base.riskScores.urls = SumListedTotals(UrlDomainFindings)
          /\ Walked => results.riskScores.urls >= base.riskScores.urls)
    /\ [][StepOfRun => \A cat \in Categories : results'.riskScores[cat] >= results.riskScores[cat]]_vars

\* C19 witness: a displayed run whose urls score exceeds 100, enrichment
\* included, under a total of 100
C19_Witness ==
    /\ pc = "shown"
    /\ base.riskScores.urls > 100
    /\ results.riskScores.urls > base.riskScores.urls
    /\ results.summary.totalScore = 100

\* s is a prefix of t
IsPrefix(s, t) == Len(s) <= Len(t) /\ SubSeq(t, 1, Len(s)) = s

\* the items of the findings the enrichment emits
EnrichmentItem(item) ==
    \E p \in {"domain trust - ", "domain info - ", "VirusTotal reputation - ", "file reputation - "} :
        StartsWith(item, <<p>>)

\* C20: every step of a run leaves the finding list of every category as a
\* prefix of the list after it; the enrichment findings of a category come
\* after all its analyzer findings.
C20_FindingsAppendOnly ==
    /\ [][StepOfRun => \A cat \in Categories : IsPrefix(results[cat], results'[cat])]_vars
    /\ [](Walked =>
            \A cat \in Categories :
                /\ IsPrefix(base[cat], results[cat])
                /\ \A i \in 1..Len(results[cat]) :
                     EnrichmentItem(results[cat][i].item) <=> i > Len(base[cat]))

\* C20 witness: a displayed run whose urls and attachments lists hold the
\* analyzers' findings followed by enrichment findings
C20_Witness ==
    /\ pc = "shown"
    /\ Len(base.urls) > 0 /\ Len(results.urls) > Len(base.urls)
    /\ Len(base.attachments) > 0 /\ Len(results.attachments) > Len(base.attachments)
    /\ IsPrefix(base.urls, results.urls)

-----------------------------------------------------------------------------
(* Claims about the categories a stage writes *)

\* the findings and the score of the category are the same in both results
SameCategory(r1, r2, cat) == r1[cat] = r2[cat] /\ r1.riskScores[cat] = r2.riskScores[cat]

\* the step leaves the findings and the score of the category as they were
Untouched(cat) == results'[cat] = results[cat] /\ results'.riskScores[cat] = results.riskScores[cat]

\* C21: analyze_headers leaves body, attachments and urls unchanged;
\* analyze_attachment changes only attachments; analyze_url changes only urls;
\* analyze_html_body changes only body and, through analyze_url, urls; the
\* enrichment changes only urls and attachments, never header or body.
C21_StagesWriteOwnCategories ==
    /\ [][(pc = "headers" /\ pc' = "walk") =>
            Untouched("body") /\ Untouched("attachments") /\ Untouched("urls")]_vars
    /\ [][(pc = "walk" /\ pc' = "walk") =>
            /\ Untouched("header")
            /\ msg.parts[partIdx].disposition = "attachment" => Untouched("body") /\ Untouched("urls")
            /\ msg.parts[partIdx].disposition # "attachment" => Untouched("attachments")]_vars
    /\ [][(pc = "domains" /\ pc' \in {"domains", "files"}) =>
            Untouched("header") /\ Untouched("body") /\ Untouched("attachments")]_vars
    /\ [][(pc = "files" /\ pc' \in {"files", "summary"}) =>
            Untouched("header") /\ Untouched("body") /\ Untouched("urls")]_vars
    /\ [](pc = "walk" =>
            \A url \in {UrlScenarioC, <<"http", "://">> \o HostPuny} :
                [analyze_url(url, results) EXCEPT !.urls = results.urls,
                                                  !.riskScores.urls = results.riskScores.urls] = results)

\* C21 witness: a displayed run in which the header analysis, an HTML part,
\* an attachment and both enrichments each added findings
C21_Witness ==
    /\ pc = "shown"
    /\ results.riskScores.header > 0
    /\ results.riskScores.body > 0
    /\ base.riskScores.attachments > 0 /\ results.riskScores.attachments > base.riskScores.attachments
    /\ base.riskScores.urls > 0 /\ results.riskScores.urls > base.riskScores.urls

-----------------------------------------------------------------------------
(* Claims about the Received headers *)

\* the address a Received line of the inputs names in brackets, if any
BracketedIPs(line) ==
    IF \E i \in 1..Len(line) : line[i] = "["
    THEN LET i == CHOOSE k \in 1..Len(line) : line[k] = "["
             j == CHOOSE k \in 1..Len(line) : line[k] = "]"
         IN  <<SubSeq(line, i + 1, j - 1)>>
    ELSE <<>>

\* the addresses of the lines, in the order of the lines
RECURSIVE DiscoveredIPs(_)
DiscoveredIPs(lines) ==
    IF lines = <<>> THEN <<>> ELSE BracketedIPs(Head(lines)) \o DiscoveredIPs(Tail(lines))

\* the addresses joined by the arrow separator
RECURSIVE Arrowed(_)
Arrowed(ips) ==
    IF Len(ips) = 1 THEN ips[1] ELSE ips[1] \o <<" -> ">> \o Arrowed(Tail(ips))

\* C22: more than 5 Received headers give one warn finding and +10, 5 or
\* fewer none; the IPv4 literals of all Received headers are one info finding
\* in order of discovery that adds 0; without a literal there is no such
\* finding.
C22_ReceivedHeaders ==
    last.op = "analyze_headers" =>
        LET h    == last.arg
            path == HeaderFindings(<<"mail server path">>)
            ips  == HeaderFindings(<<"relay IP addresses">>)
            found == DiscoveredIPs(h.Received)
        IN  /\ Cardinality(path) = (IF Len(h.Received) > 5 THEN 1 ELSE 0)
            /\ \A i \in path : results.header[i].status = "warn"
            /\ Cardinality(ips) = (IF found = <<>> THEN 0 ELSE 1)
            /\ \A i \in ips : results.header[i].status = "info" /\ results.header[i].value = Arrowed(found)
            /\ results.riskScores.header
                 = ScoreWithout([h EXCEPT !.Received = <<>>]) + (IF Len(h.Received) > 5 THEN 10 ELSE 0)

\* C22 witness: three Received headers, two of them with an address: no warn,
\* no score, one info finding "10.0.0.2 -> 192.168.1.1"
C22_Witness ==
    /\ last.op = "analyze_headers"
    /\ Len(last.arg.Received) = 3
    /\ last.arg.From = <<>> /\ last.arg.AuthResults = <<>>
    /\ results.riskScores.header = 0
    /\ \E i \in HeaderFindings(<<"relay IP addresses">>) :
         results.header[i].value = <<"1", "0", ".", "0", ".", "0", ".", "2", " -> ">> \o HostIP

-----------------------------------------------------------------------------
(* Claims about the file signature of an attachment *)

\* the table entries whose magic bytes the first 8 bytes of the payload start with
MatchingSignatures(payload) ==
    {k \in 1..Len(FILE_SIGNATURES) :
        LET sig == FILE_SIGNATURES[k].sig
        IN  /\ Len(sig) <= 8
            /\ Len(sig) <= Len(payload)
            /\ \A j \in 1..Len(sig) : payload[j] = sig[j]}

\* the declared type is an OOXML type
IsOoxmlType(ctype) == \E j \in 1..Len(ctype) : ctype[j] = "openxmlformats"

\* the mismatch findings the call appended
MismatchFindings ==
    {i \in 1..Len(NewAttFindings) : NewAttFindings[i].item = <<"MIME type mismatch">>}

\* C23: for an attachment (with a file name) the mismatch finding, danger and
\* +40, is emitted exactly when the payload is not empty, its first 8 bytes
\* start with a signature of the table and the declared type differs from the
\* type of that signature, unless that type is application/zip and the
\* declared type is an OOXML type; never more than one such finding.
C23_SignatureMismatch ==
    (last.op = "analyze_attachment" /\ last.arg.filename # <<>>)
    => LET part     == last.arg
           expected == \E k \in MatchingSignatures(part.payload) :
                          /\ part.ctype # FILE_SIGNATURES[k].mime
                          /\ ~(FILE_SIGNATURES[k].mime = <<"application/zip">> /\ IsOoxmlType(part.ctype))
           noSig    == [part EXCEPT !.payload = <<"00", "01">>]
       IN  /\ Cardinality(MismatchFindings) = (IF expected THEN 1 ELSE 0)
           /\ \A i \in MismatchFindings : NewAttFindings[i].status = "danger"
           /\ part.payload # <<>> =>
                results.riskScores.attachments
                  = analyze_attachment(noSig, last.before).riskScores.attachments
                    + (IF expected THEN 40 ELSE 0)
           /\ part.payload = <<>> => MismatchFindings = {}
           /\ MatchingSignatures(part.payload) = {} => MismatchFindings = {}

\* C23 witness: a ZIP payload declared as an OOXML document was analysed
\* without a mismatch finding
C23_Witness ==
    /\ last.op = "analyze_attachment"
    /\ last.arg.filename # <<>>
    /\ last.arg.payload = PayloadPK
    /\ last.arg.ctype = TypeOOXML
    /\ MismatchFindings = {}
    /\ Len(NewAttFindings) = 3

-----------------------------------------------------------------------------
(* Claims about the quiz game and the API server *)

\* game_started of the session
Started == SessionGet(session_state, "game_started", FALSE)

\* the answer recorded last
LastAnswer(ss) == ss.user_answers[Len(ss.user_answers)]

\* C24: a question whose 30 seconds ran out before the player submitted is
\* recorded as wrong, with no points, whatever option is selected.
C24_TimeoutRecordedWrong ==
    [][(/\ GameOn /\ Unanswered
        /\ elapsed_time >= TIME_LIMIT_SECONDS
        /\ session_state'.answer_submitted)
       => /\ ~LastAnswer(session_state').is_correct
          /\ session_state'.score = session_state.score]_vars

\* the table has a row with this id
HasQuestion(db, question_id) == \E i \in 1..Len(db.rows) : db.rows[i].id = question_id

\* C25: POST /submit_answer for a question id the table does not have is
\* answered with 404, not 500.
C25_UnknownQuestionIs404 ==
    (/\ last.op = "submit_answer"
     /\ last.arg.db.manager /\ last.arg.db.conn
     /\ ~HasQuestion(last.arg.db, last.arg.request.question_id))
    => response.status = 404

\* the number of answers recorded as correct
CorrectAnswers(ss) ==
    Cardinality({i \in 1..Len(ss.user_answers) : ss.user_answers[i].is_correct})

\* C26: the score is 10 times the number of answers recorded as correct,
\* between 0 and 10 times the number of questions, and never decreases during
\* a game; starting a game sets the score to 0 and the answers to empty, and
\* the restart button leaves neither behind.
C26_ScoreCountsCorrectAnswers ==
    /\ [](Started =>
            /\ session_state.score = 10 * CorrectAnswers(session_state)
            /\ 0 <= session_state.score
            /\ session_state.score <= 10 * Len(session_state.questions))
    /\ [][(Started /\ Started') => session_state'.score >= session_state.score]_vars
    /\ [][(~Started /\ Started') =>
            session_state'.score = 0 /\ session_state'.user_answers = <<>>]_vars
    /\ [][(Started /\ ~Started') =>
            "score" \notin DOMAIN session_state' /\ "user_answers" \notin DOMAIN session_state']_vars

\* C26 witness: a game of three questions ended with two correct answers and a
\* time-out
C26_Witness ==
    /\ SessionGet(session_state, "game_finished", FALSE)
    /\ Len(session_state.user_answers) = 3
    /\ CorrectAnswers(session_state) = 2
    /\ session_state.score = 20
    /\ \E i \in 1..3 : session_state.user_answers[i].user_choice = TimedOut

\* C27: in a started game the index is within the questions; the answers are
\* one per answered question, in the order of the questions (index of them
\* before the current question is answered, index + 1 after); the index only
\* moves by one step forward from an answered question; the game is finished
\* only with the last question answered.
C27_IndexAndAnswers ==
    /\ [](Started =>
            LET ss == session_state
                n  == Len(ss.questions)
            IN  /\ ss.current_question_index \in 0..(n - 1)
                /\ Len(ss.user_answers)
                     = ss.current_question_index + (IF ss.answer_submitted THEN 1 ELSE 0)
                /\ \A i \in 1..Len(ss.user_answers) :
                     ss.user_answers[i].question_data = ss.questions[i]
                /\ ss.game_finished =>
                     ss.answer_submitted /\ ss.current_question_index = n - 1)
    /\ [][(/\ Started /\ Started'
           /\ session_state'.current_question_index # session_state.current_question_index)
          => /\ session_state'.current_question_index = session_state.current_question_index + 1
             /\ session_state.answer_submitted
             /\ ~session_state'.answer_submitted]_vars

\* C27 witness: the last of three questions is answered and the game is not
\* finished yet
C27_Witness ==
    /\ GameOn
    /\ Len(session_state.questions) = 3
    /\ session_state.current_question_index = 2
    /\ session_state.answer_submitted
    /\ Len(session_state.user_answers) = 3

====
